---- MODULE Spec2Model ----
(***************************************************************************)
(* Reconcile core of kpt-config-sync: the declared-resource store          *)
(* (pkg/declared/resources.go) and the Updater that serialises a cycle     *)
(* pause -> declare -> apply -> watch -> resume (pkg/parse, updater).      *)
(*                                                                         *)
(* Objects of the store live in a heap and are named by references, so     *)
(* that a returned pointer and a returned deep copy are different things.  *)
(*                                                                         *)
(* Spec       the Updater: concurrent callers of Updater.Update.           *)
(* SpecStore  the store alone: a writer calling Resources.Update, and a    *)
(*            reader that reads and then writes into what it was handed.   *)
(***************************************************************************)
EXTENDS Integers, Sequences, FiniteSets, TLC

\* ---------------------------------------------------------------- bounds
\* Number of goroutines that call Updater.Update concurrently.
NumCallers == 2
\* Number of Resources.Update calls made in a run.
MaxDeclares == 2

Callers == 1..NumCallers
Writers == {0}
Threads == Callers \cup Writers
Readers == {"r1"}

\* ------------------------------------------------------------ object data
\* An input object (client.Object).  `conv` says whether
\* reconcile.AsUnstructuredSanitized can convert it.
NilObj == [nil |-> TRUE]
NsFoo == [nil |-> FALSE, kind |-> "Namespace", namespace |-> "", name |-> "foo", data |-> "v1", conv |-> TRUE]
CmA == [nil |-> FALSE, kind |-> "ConfigMap", namespace |-> "foo", name |-> "cm1", data |-> "v1", conv |-> TRUE]
CmB == [nil |-> FALSE, kind |-> "ConfigMap", namespace |-> "foo", name |-> "cm1", data |-> "v2", conv |-> TRUE]
Bad == [nil |-> FALSE, kind |-> "ConfigMap", namespace |-> "foo", name |-> "bad", data |-> "v1", conv |-> FALSE]

\* The value a caller writes into an object it was handed.
Scribble == "scribbled"

\* Object lists handed to Resources.Update by the writer.
InputLists ==
    { <<NsFoo, CmA>>, <<CmB>>, <<NsFoo, NilObj, CmB>>, <<CmA, Bad>> }

\* Object lists of successive commits of one source: two objects, then one
\* of them removed, then one of them named twice (with a nil in between),
\* then one that cannot be converted.
SuccessiveLists ==
    { <<NsFoo, CmA>>, <<NsFoo>>, <<CmA, NilObj, NsFoo, CmB>>, <<CmA, Bad>> }

\* Parse results (cache.objsToApply) the commit caches are built from.
CacheLists ==
    { <<NsFoo, CmA>>, <<CmB>>, <<CmA, Bad>> }

Commits == {"c1", "c2"}
NoErr == "nil"

\* core.IDOf: group/kind plus namespace/name.
IDOf(obj) == [kind |-> obj.kind, namespace |-> obj.namespace, name |-> obj.name]

IDs == { IDOf(NsFoo), IDOf(CmA), IDOf(Bad) }

\* reconcile.AsUnstructuredSanitized: a fresh unstructured object with the
\* content of obj, or an error.
AsUnstructuredSanitized(obj) ==
    IF obj.conv
    THEN [ok |-> TRUE,
          u |-> [kind |-> obj.kind, namespace |-> obj.namespace,
                 name |-> obj.name, data |-> obj.data, inventoryID |-> ""]]
    ELSE [ok |-> FALSE]

\* --------------------------------------------------------------- state
VARIABLES
    objectMap,      \* Resources.objectMap: [nil, pairs: Seq([id, ref])]
    commit,         \* Resources.commit
    heap,           \* the unstructured objects, by reference (index)
    declares,       \* number of Resources.Update calls so far (bounded)
    installed,      \* history: the snapshots handed to setObjectMap
    declaredResources, \* metric declared_resources: latest value per commit
    internalErrors, \* metric internal_errors of the parser, total
    ru,             \* per thread: the frame of its Resources.Update call
    updateMux,      \* Updater.updateMux: the set of its holders
    updating,       \* Updater.updating
    validationErrs, \* Updater.validationErrs
    watchErrs,      \* Updater.watchErrs
    paused,         \* remediator: workers paused
    watches,        \* remediator: watched kinds
    cache,          \* the cacheForCommit of every commit
    pc,             \* per caller: position in Update
    arg,            \* per caller: [commit, oldCommit] of the running call
    updateErrs,     \* per caller: what update() returned
    calls,          \* per caller: history of collaborator calls of the cycle
    entry,          \* per caller: history, the cache on entry of the cycle
    errs,           \* per caller: the local errs of Update, its return value
    remSeen,        \* per caller: history, what the remediator reported to it
    lastWatch,      \* history: the UpdateWatches call of the running cycle
    rd,             \* per reader: the last result it was handed
    builder,        \* events: the PublishingGroupBuilder
    group,          \* events: the publishers Build returned, with their timers
    clock,            \* events: the clock
    quiet,          \* events: history, ticks since the last event (any, per type)
    fired,          \* events: history, the last event published
    scopes,         \* syncs: the scope of every sync (root or namespace)
    webhook,        \* syncs: the admission webhook is running
    declaredBy,     \* syncs: the sync's source declares the Role
    role,           \* syncs: the live Role [exists, manager, content, rv]
    syncErr,        \* syncs: the error on the sync's status
    synced,         \* syncs: a cycle ran since the sync's source changed
    inInventory,    \* syncs: the Role is in the sync's inventory
    remPaused,      \* syncs: the sync's remediator is paused
    run,            \* applier: the frame of the goroutine of Applier.Run
    events,         \* applier: the events sent on the event channel
    closed,         \* applier: how often the event channel was closed
    runs,           \* applier: number of runs started (bounded)
    live,           \* applier: the objects on the cluster
    liveInv,        \* applier: the inventory object on the cluster
    strategy,       \* namespaces: the namespaceStrategy of every root sync
    nsDeclared,     \* namespaces: the sync's source declares the Namespace
    cmDeclared,     \* namespaces: the sync's source declares a ConfigMap in it
    nsLive,         \* namespaces: the live Namespace [exists, manager, how, by]
    cmLive,         \* namespaces: the sync's ConfigMap is on the cluster
    nsStatus,       \* namespaces: the sync's status
    remQueue,       \* remediator: the work queue, one item per object ID
    lastFix,        \* remediator: history, the last correction of a worker
    lastErrors      \* history: the last result of Updater.Errors

storeVars == <<objectMap, commit, heap, declares, installed, declaredResources,
               internalErrors>>
updaterVars == <<updateMux, updating, validationErrs, watchErrs, paused, watches,
                 cache, pc, arg, updateErrs, calls, entry, errs, remSeen, lastWatch>>
eventVars == <<builder, group, clock, quiet, fired>>
syncVars == <<scopes, webhook, declaredBy, role, syncErr, synced, inInventory,
              remPaused>>
applierVars == <<run, events, closed, runs, live, liveInv>>
nsVars == <<strategy, nsDeclared, cmDeclared, nsLive, cmLive, nsStatus>>
remVars == <<remQueue, lastFix, lastErrors>>
others == <<eventVars, syncVars, applierVars, nsVars, remVars>>
vars == <<objectMap, commit, heap, declares, installed, declaredResources,
          internalErrors, ru, updateMux, updating, validationErrs, watchErrs,
          paused, watches, cache, pc, arg, updateErrs, calls, entry, errs, remSeen,
          lastWatch, rd, others>>

\* ------------------------------------------------------ ordered map helpers
NilMap == [nil |-> TRUE, pairs |-> <<>>]

HasKey(pairs, id) == \E i \in 1..Len(pairs) : pairs[i].id = id

RefOf(pairs, id) ==
    LET i == CHOOSE j \in 1..Len(pairs) : pairs[j].id = id IN pairs[i].ref

\* A Set that moves a key it already holds to the back.
MapSetMoveToBack(pairs, id, ref) ==
    Append(SelectSeq(pairs, LAMBDA pr : pr.id # id), [id |-> id, ref |-> ref])

\* orderedmap.Set: replaces the value of an existing key in place, appends a
\* new key at the back.
MapSet(pairs, id, ref) ==
    IF HasKey(pairs, id)
    THEN [i \in 1..Len(pairs) |->
            IF pairs[i].id = id THEN [id |-> id, ref |-> ref] ELSE pairs[i]]
    ELSE Append(pairs, [id |-> id, ref |-> ref])

\* ---------------------------------------------------- Resources (the store)
\* getObjectMap: pointer and commit sampled under one read lock.
getObjectMap == [objSet |-> objectMap, commit |-> commit]

\* setObjectMap with the commit left behind.
setObjectMapKeepCommit(newSet, newCommit) ==
    [objectMap |-> [nil |-> FALSE, pairs |-> newSet], commit |-> commit]

\* setObjectMap: pointer and commit assigned under one write lock.
setObjectMap(newSet, newCommit) ==
    [objectMap |-> [nil |-> FALSE, pairs |-> newSet], commit |-> newCommit]

\* A loop of Resources.Update that leaves out what it cannot convert.
RECURSIVE BuildSetSkipsUnconvertible(_, _, _)
BuildSetSkipsUnconvertible(objs, base, acc) ==
    IF objs = <<>> THEN acc
    ELSE LET obj == Head(objs) IN
         IF obj.nil
         THEN BuildSetSkipsUnconvertible(Tail(objs), base, [acc EXCEPT !.nils = @ + 1])
         ELSE LET c == AsUnstructuredSanitized(obj) IN
              IF ~c.ok
              THEN BuildSetSkipsUnconvertible(Tail(objs), base, acc)
              ELSE BuildSetSkipsUnconvertible(Tail(objs), base,
                     [acc EXCEPT
                        !.cells = Append(@, c.u),
                        !.newSet = MapSet(@, IDOf(obj), base + Len(acc.cells) + 1),
                        !.newObjects = Append(@, obj)])

\* A loop of Resources.Update that gives up at a nil object.
RECURSIVE BuildSetNilFails(_, _, _)
BuildSetNilFails(objs, base, acc) ==
    IF objs = <<>> THEN acc
    ELSE LET obj == Head(objs) IN
         IF obj.nil
         THEN [acc EXCEPT !.ok = FALSE, !.nils = @ + 1]
         ELSE LET c == AsUnstructuredSanitized(obj) IN
              IF ~c.ok
              THEN [acc EXCEPT !.ok = FALSE]
              ELSE BuildSetNilFails(Tail(objs), base,
                     [acc EXCEPT
                        !.cells = Append(@, c.u),
                        !.newSet = MapSet(@, IDOf(obj), base + Len(acc.cells) + 1),
                        !.newObjects = Append(@, obj)])

\* The loop of Resources.Update that builds newSet and newObjects; the
\* converted objects are placed in the heap behind `base`.  nils counts the
\* calls of metrics.RecordInternalError.
RECURSIVE BuildSet(_, _, _)
BuildSet(objs, base, acc) ==
    IF objs = <<>> THEN acc
    ELSE LET obj == Head(objs) IN
         IF obj.nil
         THEN BuildSet(Tail(objs), base, [acc EXCEPT !.nils = @ + 1])
         ELSE LET c == AsUnstructuredSanitized(obj) IN
              IF ~c.ok
              THEN [acc EXCEPT !.ok = FALSE]
              ELSE BuildSet(Tail(objs), base,
                     [acc EXCEPT
                        !.cells = Append(@, c.u),
                        !.newSet = MapSet(@, IDOf(obj), base + Len(acc.cells) + 1),
                        !.newObjects = Append(@, obj)])

EmptyBuild == [ok |-> TRUE, nils |-> 0, cells |-> <<>>, newSet |-> <<>>, newObjects |-> <<>>]

\* Recording the new commit's value only.
RecordDeclaredNoReset(m, newCommit, oldCommit, n) == [m EXCEPT ![newCommit] = n]

\* metrics.RecordDeclaredResources for the new commit and, after a change of
\* commit, the reset of the old commit's stream to 0.
RecordDeclared(m, newCommit, oldCommit, n) ==
    LET m1 == [m EXCEPT ![newCommit] = n] IN
    IF oldCommit # newCommit /\ oldCommit # ""
    THEN [m1 EXCEPT ![oldCommit] = 0]
    ELSE m1

\* The Namespace objects a set declares.
NamespacesOf(pairs) ==
    { pairs[i].id : i \in { j \in 1..Len(pairs) : pairs[j].id.kind = "Namespace" } }

\* deletesAllNamespaces: the new set is rejected when the previous set
\* declared Namespace objects and the new set declares none of them.
deletesAllNamespaces(previousSet, newSet) ==
    /\ ~previousSet.nil
    /\ NamespacesOf(previousSet.pairs) # {}
    /\ NamespacesOf(previousSet.pairs) \cap NamespacesOf(newSet) = {}

\* The check-and-install tail of Resources.Update, installing first.
InstallThenCheck(previousSet, newSet, newCommit) ==
    [err |-> IF deletesAllNamespaces(previousSet, newSet)
             THEN "NamespaceRetentionError" ELSE NoErr,
     store |-> setObjectMap(newSet, newCommit)]

\* A tail of Resources.Update that keeps the objects of the previous set
\* which the new set does not declare.
CheckAndInstallMerging(previousSet, newSet, newCommit) ==
    IF deletesAllNamespaces(previousSet, newSet)
    THEN [err |-> "NamespaceRetentionError",
          store |-> [objectMap |-> objectMap, commit |-> commit]]
    ELSE [err |-> NoErr,
          store |-> setObjectMap(
                      SelectSeq(previousSet.pairs, LAMBDA pr : ~HasKey(newSet, pr.id))
                         \o newSet,
                      newCommit)]

\* The tail of Resources.Update: the namespace-retention check against the
\* sampled previous set and, only when it passes, setObjectMap.
CheckAndInstall(previousSet, newSet, newCommit) ==
    IF deletesAllNamespaces(previousSet, newSet)
    THEN [err |-> "NamespaceRetentionError",
          store |-> [objectMap |-> objectMap, commit |-> commit]]
    ELSE [err |-> NoErr, store |-> setObjectMap(newSet, newCommit)]

\* Get handing out the stored pointer.
ReturnReference(ref) == [kind |-> "ref", ref |-> ref]

\* Unstructured.DeepCopy: a private object with the content of the original
\* (`from` is history: the reference it was copied from).
DeepCopy(ref) == [kind |-> "copy", val |-> heap[ref], from |-> ref]

\* Resources.Get
Get(id) ==
    LET s == getObjectMap IN
    IF s.objSet.nil \/ Len(s.objSet.pairs) = 0 \/ ~HasKey(s.objSet.pairs, id)
    THEN [op |-> "Get", id |-> id, objs |-> <<>>, commit |-> s.commit, found |-> FALSE]
    ELSE [op |-> "Get", id |-> id, objs |-> <<DeepCopy(RefOf(s.objSet.pairs, id))>>,
          commit |-> s.commit, found |-> TRUE]

\* Resources.DeclaredUnstructureds / Resources.DeclaredObjects: both append
\* pair.Value, the stored pointer, in map order.
DeclaredList(op) ==
    LET s == getObjectMap IN
    [op |-> op,
     objs |-> [i \in 1..Len(s.objSet.pairs) |->
                 [kind |-> "ref", ref |-> s.objSet.pairs[i].ref]],
     commit |-> s.commit]

DeclaredUnstructureds == DeclaredList("DeclaredUnstructureds")

DeclaredObjects == DeclaredList("DeclaredObjects")

\* DeclaredGVKs looking at the first object only.
DeclaredGVKsFirstOnly ==
    LET s == getObjectMap IN
    [op |-> "DeclaredGVKs",
     gvks |-> { heap[s.objSet.pairs[i].ref].kind : i \in 1..Len(s.objSet.pairs) \cap {1} },
     commit |-> s.commit]

\* Resources.DeclaredGVKs
DeclaredGVKs ==
    LET s == getObjectMap IN
    [op |-> "DeclaredGVKs",
     gvks |-> { heap[s.objSet.pairs[i].ref].kind : i \in 1..Len(s.objSet.pairs) },
     commit |-> s.commit]

NoFrame == [pc |-> "none"]

\* The frame of a call Resources.Update(objects, commit, oldCommit).
CallFrame(objs, c, old) ==
    [pc |-> "build", objects |-> objs, commit |-> c, oldCommit |-> old]

\* Resources.Update, first half: build the new set, record the metrics, then
\* sample the previous set (getObjectMap).  A conversion error returns at
\* once.  `seen` is history: the store as it was sampled.
RUBuild(t) ==
    /\ ru[t].pc = "build"
    /\ LET f == ru[t]
           b == BuildSet(f.objects, Len(heap), EmptyBuild)
       IN /\ internalErrors' = internalErrors + b.nils
          /\ IF ~b.ok
             THEN /\ ru' = [ru EXCEPT ![t] = [pc |-> "done", err |-> "InternalError",
                                               newObjects |-> <<>>, seen |-> getObjectMap]]
                  /\ UNCHANGED <<heap, declaredResources>>
             ELSE /\ heap' = heap \o b.cells
                  /\ declaredResources' =
                        RecordDeclared(declaredResources, f.commit, f.oldCommit,
                                       Len(b.newObjects))
                  /\ ru' = [ru EXCEPT ![t] =
                        [pc |-> "install", commit |-> f.commit, newSet |-> b.newSet,
                         newObjects |-> b.newObjects,
                         previousSet |-> getObjectMap.objSet, seen |-> getObjectMap]]
    /\ UNCHANGED <<objectMap, commit, declares, installed, updaterVars, rd, others>>

\* Resources.Update, second half: deletesAllNamespaces, then setObjectMap.
RUInstall(t) ==
    /\ ru[t].pc = "install"
    /\ LET f == ru[t]
           r == CheckAndInstall(f.previousSet, f.newSet, f.commit)
       IN /\ objectMap' = r.store.objectMap
          /\ commit' = r.store.commit
          /\ installed' = IF r.err = NoErr
                          THEN installed \cup
                                 { [objSet |-> [nil |-> FALSE, pairs |-> f.newSet],
                                    commit |-> f.commit] }
                          ELSE installed
          /\ ru' = [ru EXCEPT ![t] =
                      [pc |-> "done", err |-> r.err,
                       newObjects |-> IF r.err = NoErr THEN f.newObjects ELSE <<>>,
                       seen |-> f.seen]]
    /\ UNCHANGED <<heap, declares, declaredResources, internalErrors, updaterVars, rd, others>>


\* ------------------------------------------------------ Updater, pure parts
FreshCache(objs, perrs) ==
    [objsToApply |-> objs, parserErrs |-> perrs,
     declaredResourcesUpdated |-> FALSE, applied |-> FALSE, watchesUpdated |-> FALSE]

\* sync.Mutex.Lock ignoring the holder.
LockAlways(mux) == TRUE

\* updateMux.Lock() proceeds only when nobody holds the mutex.
CanLock(mux) == mux = {}

\* Applier.Apply converts the declared objects it is given into
\* unstructured objects of its own before it runs the apply.
toUnstructured(objs) == [i \in 1..Len(objs) |-> DeepCopy(objs[i].ref)]

\* The inventory the applier of this sync tracks its objects in.
InventoryID == "inv1"

\* A stamp that writes through a copy into the object it was made from.
AddInventoryIDAnnotationShallow(h, localObjs, id) ==
    [r \in 1..Len(h) |->
        IF \E i \in 1..Len(localObjs) :
              \/ localObjs[i].kind = "ref" /\ localObjs[i].ref = r
              \/ localObjs[i].kind = "copy" /\ localObjs[i].from = r
        THEN [h[r] EXCEPT !.inventoryID = id]
        ELSE h[r]]

\* prepareObjects: inventory.AddInventoryIDAnnotation(localObj, id) on every
\* object handed to Run; the heap afterwards (a private copy is not part
\* of it).
AddInventoryIDAnnotation(h, localObjs, id) ==
    [r \in 1..Len(h) |->
        IF \E i \in 1..Len(localObjs) :
              localObjs[i].kind = "ref" /\ localObjs[i].ref = r
        THEN [h[r] EXCEPT !.inventoryID = id]
        ELSE h[r]]

\* A step guard that ignores its progress flag.
AlwaysRun(flag) == TRUE

\* `if !cache.<flag>`: a step runs only while its progress flag is unset.
NeedsStep(flag) == ~flag

\* Marking progress whatever the parser said.
MarkAlways(c, field) == [c EXCEPT ![field] = TRUE]

\* `if cache.parserErrs == nil { cache.<flag> = true }`
StepDone(c, field) == IF c.parserErrs THEN c ELSE [c EXCEPT ![field] = TRUE]

\* A failing step that throws away the progress made before it.
ResetOnFailure(c) ==
    [c EXCEPT !.declaredResourcesUpdated = FALSE, !.applied = FALSE,
              !.watchesUpdated = FALSE]

\* `return err`: a failing step leaves the cache as it is.
StepFailed(c) == c

\* update() with the apply and watch steps swapped.
NextPcWatchFirst(step, err) ==
    IF err # NoErr THEN "ret"
    ELSE CASE step = "pause" -> "declare"
           [] step = "declare" -> "watch"
           [] step = "watch" -> "apply"
           [] step = "apply" -> "resume"
           [] step = "resume" -> "ret"

\* update() returning after the watch step without Resume.
NextPcNoResume(step, err) ==
    IF err # NoErr THEN "ret"
    ELSE CASE step = "pause" -> "declare"
           [] step = "declare" -> "apply"
           [] step = "apply" -> "watch"
           [] step = "watch" -> "ret"
           [] step = "resume" -> "ret"

\* update() going on to the watch step after a failed apply.
NextPcPastFailedApply(step, err) ==
    IF step = "apply" THEN "watch"
    ELSE IF err # NoErr THEN "ret"
    ELSE CASE step = "pause" -> "declare"
           [] step = "declare" -> "apply"
           [] step = "watch" -> "resume"
           [] step = "resume" -> "ret"

\* update() resuming the remediator as soon as the store is updated.
NextPcResumeBeforeApply(step, err) ==
    IF err # NoErr THEN "ret"
    ELSE CASE step = "pause" -> "declare"
           [] step = "declare" -> "resume"
           [] step = "resume" -> "apply"
           [] step = "apply" -> "watch"
           [] step = "watch" -> "ret"

\* update() resuming the remediator on its way out of a failed step.
NextPcResumeOnError(step, err) ==
    CASE step = "pause" -> "declare"
      [] step = "declare" -> IF err # NoErr THEN "resume" ELSE "apply"
      [] step = "apply" -> IF err # NoErr THEN "resume" ELSE "watch"
      [] step = "watch" -> "resume"
      [] step = "resume" -> "ret"

\* The control flow of update(): the steps in program order, every failing
\* step returning at once.
NextPc(step, err) ==
    IF err # NoErr THEN "ret"
    ELSE CASE step = "pause" -> "declare"
           [] step = "declare" -> "apply"
           [] step = "apply" -> "watch"
           [] step = "watch" -> "resume"
           [] step = "resume" -> "ret"

NoArg == [commit |-> "", oldCommit |-> ""]

NoWatch == [called |-> FALSE, gvks |-> {}, pruning |-> {}]

\* Remediator.UpdateWatches(gvks): watches are started for the missing
\* kinds and stopped for the extraneous ones, except the watched kinds of
\* objects that are still being pruned.
UpdateWatches(active, gvks, pruning) == gvks \cup (active \cap pruning)

\* What Remediator.ConflictErrors() and Remediator.FightErrors() can hand
\* back: nothing, or the errors the remediator holds.
ConflictErrs == {<<>>, <<"ManagementConflict">>}
FightErrs == {<<>>, <<"Fight">>}
NoReport == [conflict |-> <<>>, fight |-> <<>>]

\* The MultiError of update(): nil, or the error of the failing step.
ErrList(err) == IF err = NoErr THEN <<>> ELSE <<err>>

\* conflictErrors / fightErrors: the remediator's errors appended one by
\* one to an empty MultiError.
RECURSIVE AppendEach(_, _)
AppendEach(acc, list) ==
    IF list = <<>> THEN acc ELSE AppendEach(Append(acc, Head(list)), Tail(list))

conflictErrors(reported) == AppendEach(<<>>, reported)

fightErrors(reported) == AppendEach(<<>>, reported)

\* What Applier.Errors() can hand back: nothing, or the errors of its last
\* apply.
ApplierErrs == {<<>>, <<"ApplyError">>}

\* Errors with the watch errors in front.
ErrorsWatchFirst(ce, fe, ve, ae, we) ==
    (((ErrList(we) \o conflictErrors(ce)) \o fightErrors(fe)) \o ErrList(ve)) \o ae

\* Updater.Errors: status.Append of conflictErrors(), fightErrors(),
\* validationErrs, Applier.Errors() and watchErrs, in this order.
Errors(ce, fe, ve, ae, we) ==
    (((conflictErrors(ce) \o fightErrors(fe)) \o ErrList(ve)) \o ae) \o ErrList(we)

NoCall == [called |-> FALSE]

\* ------------------------------------------------ remediator, pure parts
\* The objects on the cluster that a watcher can report.
LiveIDs == { IDOf(CmA) }

NoFix == [done |-> FALSE]

\* What a watcher puts into the queue (`seen` and `whilePaused` are history:
\* the commit of the store and the state of the workers at that moment).
Item(id) == [id |-> id, seen |-> commit, whilePaused |-> paused]

\* Workers dequeue only while the remediator is running.
WorkersRun(p) == ~p

\* A worker's decision for a dequeued ID: re-apply the declared version, or
\* delete the live object that is no longer declared.
Decide(id) == IF Get(id).found THEN "apply" ELSE "delete"

\* An Update that reports nothing when its own steps were clean.
ReturnedErrsCleanNil(acc, fe, ue) == IF ue = <<>> THEN <<>> ELSE (acc \o fe) \o ue

\* Update: errs = Append(errs, fightErrors()); errs = Append(errs, updateErrs).
ReturnedErrs(acc, fe, ue) == (acc \o fe) \o ue

\* ------------------------------------------------- PublishingGroupBuilder
MaxPeriod == 2
MaxTime == 5
Periods == -1..MaxPeriod

SyncEventType == "SyncEvent"
NamespaceSyncEventType == "NamespaceSyncEvent"
RetrySyncEventType == "RetrySyncEvent"
StatusUpdateEventType == "StatusUpdateEvent"
EventTypes == {SyncEventType, NamespaceSyncEventType, RetrySyncEventType,
               StatusUpdateEventType}

\* A publisher: what it publishes, how its timer behaves, its period and
\* the time its timer has run.
NewResetOnRunAttemptPublisher(eventType, period) ==
    [kind |-> "ResetOnRunAttempt", eventType |-> eventType, period |-> period,
     elapsed |-> 0]

NewTimeDelayPublisher(eventType, period) ==
    [kind |-> "TimeDelay", eventType |-> eventType, period |-> period, elapsed |-> 0]

NewRetrySyncPublisher(backoff) ==
    [kind |-> "RetrySync", eventType |-> RetrySyncEventType,
     period |-> backoff.Duration, elapsed |-> 0]

\* A Build whose sync publisher is a plain time-delay publisher.
BuildSyncTimeDelay(t) ==
    LET p1 == IF t.SyncPeriod > 0
              THEN <<NewTimeDelayPublisher(SyncEventType, t.SyncPeriod)>>
              ELSE <<>>
        p2 == IF t.NamespaceControllerPeriod > 0
              THEN Append(p1, NewTimeDelayPublisher(NamespaceSyncEventType,
                                                    t.NamespaceControllerPeriod))
              ELSE p1
        p3 == IF t.RetryBackoff.Duration > 0
              THEN Append(p2, NewRetrySyncPublisher(t.RetryBackoff))
              ELSE p2
    IN  IF t.StatusUpdatePeriod > 0
        THEN Append(p3, NewTimeDelayPublisher(StatusUpdateEventType, t.StatusUpdatePeriod))
        ELSE p3

\* A Build that creates the status publisher whatever its period.
BuildStatusAlways(t) ==
    LET p1 == IF t.SyncPeriod > 0
              THEN <<NewResetOnRunAttemptPublisher(SyncEventType, t.SyncPeriod)>>
              ELSE <<>>
        p2 == IF t.NamespaceControllerPeriod > 0
              THEN Append(p1, NewTimeDelayPublisher(NamespaceSyncEventType,
                                                    t.NamespaceControllerPeriod))
              ELSE p1
        p3 == IF t.RetryBackoff.Duration > 0
              THEN Append(p2, NewRetrySyncPublisher(t.RetryBackoff))
              ELSE p2
    IN  Append(p3, NewTimeDelayPublisher(StatusUpdateEventType, t.StatusUpdatePeriod))

\* PublishingGroupBuilder.Build: the publishers, appended in program order.
Build(t) ==
    LET p1 == IF t.SyncPeriod > 0
              THEN <<NewResetOnRunAttemptPublisher(SyncEventType, t.SyncPeriod)>>
              ELSE <<>>
        p2 == IF t.NamespaceControllerPeriod > 0
              THEN Append(p1, NewTimeDelayPublisher(NamespaceSyncEventType,
                                                    t.NamespaceControllerPeriod))
              ELSE p1
        p3 == IF t.RetryBackoff.Duration > 0
              THEN Append(p2, NewRetrySyncPublisher(t.RetryBackoff))
              ELSE p2
    IN  IF t.StatusUpdatePeriod > 0
        THEN Append(p3, NewTimeDelayPublisher(StatusUpdateEventType, t.StatusUpdatePeriod))
        ELSE p3

\* The timer of a publisher has run its period.
Due(pub) == pub.elapsed >= pub.period

\* A publisher that published restarts its timer.
Published(pub) == [pub EXCEPT !.elapsed = 0]

\* What a publisher does when an event of another publisher was handled and
\* a reconcile was attempted: only the reset-on-run-attempt timer restarts.
HandleResult(pub, runAttempted) ==
    IF pub.kind = "ResetOnRunAttempt" /\ runAttempted
    THEN [pub EXCEPT !.elapsed = 0]
    ELSE pub

NoGroup == [built |-> FALSE, publishers |-> <<>>]
NoEvent == [n |-> 0, eventType |-> "none", quietAll |-> 0, quietOwn |-> 0]
NoQuiet == [all |-> 0, own |-> [e \in EventTypes |-> 0]]
NoBuilder ==
    [SyncPeriod |-> 0, NamespaceControllerPeriod |-> 0,
     RetryBackoff |-> [Duration |-> 0], StatusUpdatePeriod |-> 0]

InitEvents ==
    /\ builder \in [SyncPeriod : Periods, NamespaceControllerPeriod : Periods,
                     RetryBackoff : [Duration : Periods], StatusUpdatePeriod : Periods]
    /\ group = NoGroup
    /\ clock = 0
    /\ quiet = NoQuiet
    /\ fired = NoEvent

\* No publisher is built.
InitEventsIdle ==
    /\ builder = NoBuilder
    /\ group = NoGroup
    /\ clock = 0
    /\ quiet = NoQuiet
    /\ fired = NoEvent

\* --------------------------------------------- two syncs and one live object
Syncs == {"sync1", "sync2"}
MaxVersion == 4
RootScope == "root"
NamespaceScope == "namespace"
NoRole == [exists |-> FALSE, manager |-> "", content |-> "", rv |-> 0]
NoSyncErr == "none"

Other(s) == CHOOSE o \in Syncs : o # s

\* A namespace-scoped sync that takes over what another sync manages.
ApplyDecisionNamespaceAdopts(myScope, ownerScope, webhookOn) ==
    IF myScope = NamespaceScope THEN "adopt"
    ELSE IF ownerScope = NamespaceScope THEN "override"
    ELSE IF webhookOn THEN "denied" ELSE "adopt"

\* A root sync that leaves the object of a namespace-scoped sync alone.
ApplyDecisionRootYields(myScope, ownerScope, webhookOn) ==
    IF myScope = NamespaceScope THEN "conflict"
    ELSE IF ownerScope = NamespaceScope THEN "conflict"
    ELSE IF webhookOn THEN "denied" ELSE "adopt"

\* What a sync does with a live object that names another manager: a
\* namespace-scoped sync never updates it and reports the conflict; a root
\* sync updates an object of a namespace-scoped sync; between two root
\* syncs the update is rejected by the admission webhook while it runs, and
\* both keep adopting the object once it is stopped.
ApplyDecision(myScope, ownerScope, webhookOn) ==
    IF myScope = NamespaceScope THEN "conflict"
    ELSE IF ownerScope = NamespaceScope THEN "override"
    ELSE IF webhookOn THEN "denied" ELSE "adopt"

\* The error a sync reports for each outcome.
DecisionErr(d) ==
    CASE d = "conflict" -> "ManagementConflict"
      [] d = "adopt" -> "ManagementConflict"
      [] d = "denied" -> "ApplierError"
      [] d = "override" -> NoSyncErr

Writes(d) == d \in {"adopt", "override"}

\* A sync that never deletes what it no longer declares.
CanPruneNever(s) == FALSE

\* A sync that deletes whatever its inventory holds, whoever manages it.
CanPruneInventoryOnly(s) == inInventory[s] /\ role.exists

\* A sync prunes the object it no longer declares when the object is in its
\* inventory and it owns it (a root sync adopts all, so it owns what is in
\* its inventory).
CanPrune(s) ==
    /\ inInventory[s]
    /\ role.exists
    /\ role.manager = s \/ scopes[s] = RootScope

WrittenBy(s) ==
    [exists |-> TRUE, manager |-> s, content |-> s, rv |-> role.rv + 1]

InitSyncs ==
    /\ scopes \in { [s \in Syncs |-> RootScope], [s \in Syncs |-> NamespaceScope] }
    /\ webhook = TRUE
    /\ declaredBy = [s \in Syncs |-> FALSE]
    /\ role = NoRole
    /\ syncErr = [s \in Syncs |-> NoSyncErr]
    /\ synced = [s \in Syncs |-> FALSE]
    /\ inInventory = [s \in Syncs |-> FALSE]
    /\ remPaused = [s \in Syncs |-> FALSE]

\* No sync runs.
InitSyncsIdle ==
    /\ scopes = [s \in Syncs |-> RootScope]
    /\ webhook = TRUE
    /\ declaredBy = [s \in Syncs |-> FALSE]
    /\ role = NoRole
    /\ syncErr = [s \in Syncs |-> NoSyncErr]
    /\ synced = [s \in Syncs |-> FALSE]
    /\ inInventory = [s \in Syncs |-> FALSE]
    /\ remPaused = [s \in Syncs |-> FALSE]

\* ------------------------------------------------------------ Applier.Run
MaxRuns == 2

\* The objects handed to the applier: a namespace and a config map in it, an
\* object that depends on another one, an object that fails validation and
\* an object that is itself an inventory.
AObjects == {"ns-foo", "cm1", "a", "b", "bad", "invobj"}

ObjKind(o) ==
    CASE o = "ns-foo" -> "Namespace"
      [] o = "invobj" -> "ResourceGroup"
      [] OTHER -> "ConfigMap"

\* metadata.namespace: empty for the cluster-scoped namespace object.
ObjNamespace(o) ==
    CASE o = "ns-foo" -> ""
      [] o = "cm1" -> "foo"
      [] OTHER -> "bar"

\* metadata.name of the namespace object.
ObjName(o) == IF o = "ns-foo" THEN "foo" ELSE o

\* The depends-on annotation.
DependsOn(o) == IF o = "a" THEN {"b"} ELSE {}

Range(seq) == { seq[i] : i \in 1..Len(seq) }

ObjectLists ==
    { <<"ns-foo", "cm1">>, <<"cm1">>, <<"a", "b">>, <<"a">>, <<>>, <<"cm1", "bad">>,
      <<"a", "bad">>, <<"cm1", "invobj">> }

InvInfos ==
    { [id |-> "inv1", namespace |-> ""], [id |-> "inv1", namespace |-> "foo"],
      [id |-> "inv2", namespace |-> ""] }

ExitEarly == "ExitEarly"
SkipInvalid == "SkipInvalid"
Policies == {ExitEarly, SkipInvalid, "Unknown"}

\* validator.Validate: the objects it finds invalid, in input order (a
\* malformed object, a dependency on an object that is not in the set).
Invalid(o, objs) == o = "bad" \/ ~(DependsOn(o) \subseteq Range(objs))

vCollect(objs) ==
    LET bad(o) == Invalid(o, objs) IN SelectSeq(objs, bad)

\* localNamespaces that looks at the inventory only.
localNamespacesInvOnly(localInv, localObjs) ==
    IF localInv.namespace # "" THEN {localInv.namespace} ELSE {}

\* localNamespaces: the namespaces of the namespaced local objects, plus
\* the namespace of the inventory object.
localNamespaces(localInv, localObjs) ==
    { ObjNamespace(localObjs[i]) :
        i \in { j \in 1..Len(localObjs) : ObjNamespace(localObjs[j]) # "" } }
    \cup (IF localInv.namespace # "" THEN {localInv.namespace} ELSE {})

\* pruner.GetPruneObjs: what the inventory holds and the local objects do
\* not.
GetPruneObjs(inv, localObjs) == inv.objs \ Range(localObjs)

NoInv == [exists |-> FALSE, id |-> "", objs |-> {}]

\* A new inventory that already lists an object.
NewInventoryNotEmpty(invInfo) == [exists |-> TRUE, id |-> invInfo.id, objs |-> {"cm1"}]

\* invClient.NewInventory(invInfo): a fresh empty inventory.
NewInventory(invInfo) == [exists |-> TRUE, id |-> invInfo.id, objs |-> {}]

\* prepareObjects: the objects to apply and to prune, or an error; the
\* local objects are stamped once ValidateNoInventory has passed.
prepareObjects(inv, localObjs, pruneErr) ==
    IF \E o \in Range(localObjs) : ObjKind(o) = "ResourceGroup"
    THEN [err |-> "InventoryInObjects", stamped |-> "", applyObjs |-> <<>>,
          pruneObjs |-> {}]
    ELSE IF pruneErr
    THEN [err |-> "GetPruneObjsError", stamped |-> inv.id, applyObjs |-> <<>>,
          pruneObjs |-> {}]
    ELSE [err |-> NoErr, stamped |-> inv.id, applyObjs |-> localObjs,
          pruneObjs |-> GetPruneObjs(inv, localObjs)]

\* A policy switch that goes on under a policy it does not know.
PolicyOutcomeUnknownGoes(policy, vErrors) ==
    CASE policy = ExitEarly -> IF vErrors # <<>> THEN "abort" ELSE "go"
      [] policy = SkipInvalid -> "go"
      [] OTHER -> "go"

\* A policy switch that lets ExitEarly go on in spite of validation errors.
PolicyOutcomeLenient(policy, vErrors) ==
    CASE policy = ExitEarly -> "go"
      [] policy = SkipInvalid -> "go"
      [] OTHER -> "abort"

\* The ValidationPolicy switch of Run.
PolicyOutcome(policy, vErrors) ==
    CASE policy = ExitEarly -> IF vErrors # <<>> THEN "abort" ELSE "go"
      [] policy = SkipInvalid -> "go"
      [] OTHER -> "abort"

ErrorEvent(err) == [type |-> "Error", obj |-> "", status |-> err]
InitEvent == [type |-> "Init", obj |-> "", status |-> ""]
ValidationEvent(o) == [type |-> "Validation", obj |-> o, status |-> "Invalid"]
ApplyEvent(o, st) == [type |-> "Apply", obj |-> o, status |-> st]
WaitEvent(o, st) == [type |-> "Wait", obj |-> o, status |-> st]
PruneEvent(o, st) == [type |-> "Prune", obj |-> o, status |-> st]

\* Only the first validation error is reported.
ValidationEventsFirstOnly(vErrors) ==
    IF vErrors = <<>> THEN <<>> ELSE <<ValidationEvent(Head(vErrors))>>

RECURSIVE ValidationEvents(_)
ValidationEvents(vErrors) ==
    IF vErrors = <<>> THEN <<>>
    ELSE <<ValidationEvent(Head(vErrors))>> \o ValidationEvents(Tail(vErrors))

NoRun ==
    [pc |-> "idle", invInfo |-> [id |-> "", namespace |-> ""], objects |-> <<>>,
     policy |-> "", vErrors |-> <<>>, inv |-> NoInv, stamped |-> "",
     applyObjs |-> <<>>, pruneObjs |-> {}, localNs |-> {},
     status |-> [o \in AObjects |-> "none"],
     startLive |-> {}, startInv |-> NoInv]

\* The objects the queue applies and prunes: the invalid ones are left out.
ApplySet == Range(run.applyObjs) \ Range(run.vErrors)
PruneSet == run.pruneObjs \ Range(run.vErrors)

ApplySettled(o) == run.status[o] \notin {"pending", "applied"}
PruneSettled(o) == run.status[o] # "prunePending"

\* Apply waves: an object is applied after the objects it depends on.
ApplyReady(o) == \A d \in DependsOn(o) \cap ApplySet : ApplySettled(d)

\* A dependency filter that lets every apply through.
ApplyNeverBlocked(o) == FALSE

\* DependencyFilter on apply: a prerequisite did not become current.
ApplyBlocked(o) == \E d \in DependsOn(o) : run.status[d] # "current"

Dependents(o) == { d \in AObjects : o \in DependsOn(d) }

\* Prune waves: an object is pruned after the objects that depend on it.
PruneReady(o) == \A d \in Dependents(o) \cap PruneSet : PruneSettled(d)

\* LocalNamespacesFilter: the namespace is one of the local namespaces.
NamespaceInUse(o) == ObjKind(o) = "Namespace" /\ ObjName(o) \in run.localNs

\* DependencyFilter on prune: a dependent is still alive.
PruneBlocked(o) == \E d \in Dependents(o) : d \in live

\* An inventory that never forgets an object.
FinalInventoryKeepAll ==
    run.inv.objs \cup
    { o \in AObjects : run.status[o] \in {"applied", "current", "reconcileFailed"} }

\* The inventory after the run: what was applied, and what the inventory
\* had before that was not applied or pruned successfully or was invalid.
FinalInventory ==
    { o \in AObjects : run.status[o] \in {"applied", "current", "reconcileFailed"} }
    \cup { o \in run.inv.objs :
             \/ run.status[o] \in {"applyFailed", "applySkipped", "pruneFailed",
                                    "pruneSkipped"}
             \/ o \in Range(run.vErrors) }

InitApplier ==
    /\ run = NoRun
    /\ events = <<>>
    /\ closed = 0
    /\ runs = 0
    /\ live = {}
    /\ liveInv = NoInv

\* --------------------------------------------------- namespace strategy
\* Root syncs that declare objects in one namespace.
RootSyncs == {"sync-a", "sync-x"}

Explicit == "explicit"
Implicit == "implicit"

NoNamespace == [exists |-> FALSE, manager |-> "", how |-> "", by |-> ""]

\* A reconciler that adds the namespace whatever its strategy.
ImplicitNamespaceAlways(s) == cmDeclared[s] /\ ~nsDeclared[s]

\* The reconciler adds the Namespace of the objects it declares to what it
\* applies: only under the implicit strategy, and only when the source does
\* not declare the Namespace itself.
ImplicitNamespace(s) == strategy[s] = Implicit /\ cmDeclared[s] /\ ~nsDeclared[s]

\* The sync applies the Namespace: it declares it, or adds it implicitly.
AppliesNamespace(s) == nsDeclared[s] \/ ImplicitNamespace(s)

\* The Namespace after the cycle of sync s: created or taken under
\* management when the sync applies it, released by a sync that managed it
\* implicitly and no longer applies it.
NamespaceAfter(s) ==
    IF AppliesNamespace(s)
    THEN IF nsLive.exists
         THEN [nsLive EXCEPT !.manager = IF @ = "" THEN s ELSE @]
         ELSE [exists |-> TRUE, manager |-> s,
               how |-> IF nsDeclared[s] THEN "declared" ELSE Implicit, by |-> s]
    ELSE IF nsLive.exists /\ nsLive.manager = s
         THEN [nsLive EXCEPT !.manager = ""]
         ELSE nsLive

InitNamespaces ==
    /\ strategy \in [RootSyncs -> {Explicit, Implicit}]
    /\ nsDeclared = [s \in RootSyncs |-> FALSE]
    /\ cmDeclared = [s \in RootSyncs |-> FALSE]
    /\ nsLive = NoNamespace
    /\ cmLive = [s \in RootSyncs |-> FALSE]
    /\ nsStatus = [s \in RootSyncs |-> "synced"]

\* No sync declares anything.
InitNamespacesIdle ==
    /\ strategy = [s \in RootSyncs |-> Explicit]
    /\ nsDeclared = [s \in RootSyncs |-> FALSE]
    /\ cmDeclared = [s \in RootSyncs |-> FALSE]
    /\ nsLive = NoNamespace
    /\ cmLive = [s \in RootSyncs |-> FALSE]
    /\ nsStatus = [s \in RootSyncs |-> "synced"]

\* In the specification of one component the other components do not run.
InitOthers ==
    /\ InitEventsIdle
    /\ InitSyncsIdle
    /\ InitApplier
    /\ InitNamespacesIdle

\* ----------------------------------------------------------------- Init
InitCommon ==
    /\ objectMap = NilMap
    /\ commit = ""
    /\ heap = <<>>
    /\ declares = 0
    /\ installed = { [objSet |-> NilMap, commit |-> ""] }
    /\ declaredResources = [c \in Commits |-> -1]
    /\ internalErrors = 0
    /\ ru = [t \in Threads |-> NoFrame]
    /\ updateMux = {}
    /\ updating = FALSE
    /\ validationErrs = NoErr
    /\ watchErrs = NoErr
    /\ paused = FALSE
    /\ watches = {}
    /\ pc = [p \in Callers |-> "idle"]
    /\ arg = [p \in Callers |-> NoArg]
    /\ updateErrs = [p \in Callers |-> NoErr]
    /\ calls = [p \in Callers |-> <<>>]
    /\ entry = [p \in Callers |-> FreshCache(<<>>, FALSE)]
    /\ errs = [p \in Callers |-> <<>>]
    /\ remSeen = [p \in Callers |-> NoReport]
    /\ lastWatch = NoWatch
    /\ rd = [r \in Readers |-> [op |-> "none"]]
    /\ remQueue = {}
    /\ lastFix = NoFix
    /\ lastErrors = NoCall

\* A cacheForCommit per commit, as the parser left it: a parse result, with
\* or without parser errors, and no progress yet.
Init ==
    /\ InitCommon
    /\ InitOthers
    /\ cache \in [Commits -> { FreshCache(l, e) : l \in CacheLists, e \in BOOLEAN }]

\* -------------------------------------------------------- Updater.Update
\* Update: updateMux.Lock(), updating = true.
UpdateEnter(p, c, old) ==
    /\ pc[p] = "idle"
    /\ CanLock(updateMux)
    /\ cache[c].declaredResourcesUpdated \/ declares < MaxDeclares
    /\ updateMux' = updateMux \cup {p}
    /\ updating' = TRUE
    /\ pc' = [pc EXCEPT ![p] = "pause"]
    /\ arg' = [arg EXCEPT ![p] = [commit |-> c, oldCommit |-> old]]
    /\ entry' = [entry EXCEPT ![p] = cache[c]]
    /\ UNCHANGED <<storeVars, ru, validationErrs, watchErrs, paused, watches, cache,
                   updateErrs, calls, rd, errs, remSeen, lastWatch, others>>

\* update: u.Remediator.Pause()
Pause(p) ==
    /\ pc[p] = "pause"
    /\ paused' = TRUE
    /\ calls' = [calls EXCEPT ![p] = Append(@, "Pause")]
    /\ pc' = [pc EXCEPT ![p] = NextPc("pause", NoErr)]
    /\ UNCHANGED <<storeVars, ru, updateMux, updating, validationErrs, watchErrs,
                   watches, cache, arg, updateErrs, entry, rd, errs, remSeen, lastWatch, others>>

\* update: the declare step is skipped when the flag is set.
DeclareSkip(p) ==
    /\ pc[p] = "declare"
    /\ ~NeedsStep(cache[arg[p].commit].declaredResourcesUpdated)
    /\ pc' = [pc EXCEPT ![p] = NextPc("declare", NoErr)]
    /\ UNCHANGED <<storeVars, ru, updateMux, updating, validationErrs, watchErrs,
                   paused, watches, cache, arg, updateErrs, calls, entry, rd, errs, remSeen, lastWatch, others>>

\* update -> declare: u.Resources.Update(objs, commit, oldCommit) is called.
DeclareCall(p) ==
    /\ pc[p] = "declare"
    /\ NeedsStep(cache[arg[p].commit].declaredResourcesUpdated)
    /\ declares < MaxDeclares
    /\ declares' = declares + 1
    /\ ru' = [ru EXCEPT ![p] =
                CallFrame(cache[arg[p].commit].objsToApply, arg[p].commit, arg[p].oldCommit)]
    /\ calls' = [calls EXCEPT ![p] = Append(@, "Update")]
    /\ pc' = [pc EXCEPT ![p] = "declaring"]
    /\ UNCHANGED <<objectMap, commit, heap, installed, declaredResources,
                   internalErrors, updateMux, updating, validationErrs, watchErrs,
                   paused, watches, cache, arg, updateErrs, entry, rd, errs, remSeen, lastWatch, others>>

\* declare: Resources.Update has returned; setValidationErrs; the progress
\* flag, or the early return.
DeclareReturn(p) ==
    /\ pc[p] = "declaring"
    /\ ru[p].pc = "done"
    /\ validationErrs' = ru[p].err
    /\ updateErrs' = [updateErrs EXCEPT ![p] = ru[p].err]
    /\ cache' = [cache EXCEPT ![arg[p].commit] =
                   IF ru[p].err = NoErr THEN StepDone(@, "declaredResourcesUpdated")
                   ELSE StepFailed(@)]
    /\ pc' = [pc EXCEPT ![p] = NextPc("declare", ru[p].err)]
    /\ ru' = [ru EXCEPT ![p] = NoFrame]
    /\ UNCHANGED <<storeVars, updateMux, updating, watchErrs, paused, watches,
                   arg, calls, entry, rd, errs, remSeen, lastWatch, others>>

\* update: the apply step is skipped when the flag is set.
ApplySkip(p) ==
    /\ pc[p] = "apply"
    /\ ~NeedsStep(cache[arg[p].commit].applied)
    /\ pc' = [pc EXCEPT ![p] = NextPc("apply", NoErr)]
    /\ UNCHANGED <<storeVars, ru, updateMux, updating, validationErrs, watchErrs,
                   paused, watches, cache, arg, updateErrs, calls, entry, rd, errs, remSeen, lastWatch, others>>

\* update: DeclaredObjects, then apply -> Applier.Apply, which converts the
\* objects, stamps the inventory id on what it hands to Run, and succeeds or
\* fails (a failed object, a timeout, a cancelled context).
Apply(p, err) ==
    /\ pc[p] = "apply"
    /\ NeedsStep(cache[arg[p].commit].applied)
    /\ calls' = [calls EXCEPT ![p] = Append(@, "Apply")]
    /\ updateErrs' = [updateErrs EXCEPT ![p] = err]
    /\ cache' = [cache EXCEPT ![arg[p].commit] =
                   IF err = NoErr THEN StepDone(@, "applied") ELSE StepFailed(@)]
    /\ pc' = [pc EXCEPT ![p] = NextPc("apply", err)]
    /\ heap' = AddInventoryIDAnnotation(heap, toUnstructured(DeclaredObjects.objs),
                                        InventoryID)
    /\ UNCHANGED <<objectMap, commit, declares, installed, declaredResources,
                   internalErrors, ru, updateMux, updating, validationErrs, watchErrs,
                   paused, watches, arg, entry, rd, errs, remSeen, lastWatch, others>>

\* update: the watch step is skipped when the flag is set.
WatchSkip(p) ==
    /\ pc[p] = "watch"
    /\ ~NeedsStep(cache[arg[p].commit].watchesUpdated)
    /\ pc' = [pc EXCEPT ![p] = NextPc("watch", NoErr)]
    /\ UNCHANGED <<storeVars, ru, updateMux, updating, validationErrs, watchErrs,
                   paused, watches, cache, arg, updateErrs, calls, entry, rd, errs, remSeen, lastWatch, others>>

\* update: DeclaredGVKs, then watch -> Remediator.UpdateWatches, which
\* succeeds or fails while the remediator still prunes objects of the kinds
\* pruning; setWatchErrs.
Watch(p, err, pruning) ==
    /\ pc[p] = "watch"
    /\ NeedsStep(cache[arg[p].commit].watchesUpdated)
    /\ calls' = [calls EXCEPT ![p] = Append(@, "UpdateWatches")]
    /\ watches' = IF err = NoErr
                  THEN UpdateWatches(watches, DeclaredGVKs.gvks, pruning)
                  ELSE watches
    /\ lastWatch' = [called |-> TRUE, gvks |-> DeclaredGVKs.gvks, pruning |-> pruning]
    /\ watchErrs' = err
    /\ updateErrs' = [updateErrs EXCEPT ![p] = err]
    /\ cache' = [cache EXCEPT ![arg[p].commit] =
                   IF err = NoErr THEN StepDone(@, "watchesUpdated") ELSE StepFailed(@)]
    /\ pc' = [pc EXCEPT ![p] = NextPc("watch", err)]
    /\ UNCHANGED <<storeVars, ru, updateMux, updating, validationErrs, paused,
                   arg, entry, rd, errs, remSeen, others>>

\* update: u.Remediator.Resume(); return nil
Resume(p) ==
    /\ pc[p] = "resume"
    /\ paused' = FALSE
    /\ calls' = [calls EXCEPT ![p] = Append(@, "Resume")]
    /\ pc' = [pc EXCEPT ![p] = NextPc("resume", NoErr)]
    /\ UNCHANGED <<storeVars, ru, updateMux, updating, validationErrs, watchErrs,
                   watches, cache, arg, updateErrs, entry, rd, errs, remSeen, lastWatch, others>>

\* Update: update() has returned; errs = Append(nil, conflictErrors()).
PrependConflict(p, reported) ==
    /\ pc[p] = "ret"
    /\ errs' = [errs EXCEPT ![p] = conflictErrors(reported)]
    /\ remSeen' = [remSeen EXCEPT ![p].conflict = reported]
    /\ pc' = [pc EXCEPT ![p] = "fight"]
    /\ UNCHANGED <<storeVars, ru, updateMux, updating, validationErrs, watchErrs,
                   paused, watches, cache, arg, updateErrs, calls, entry, rd,
                   lastWatch, others>>

\* Update: the fight errors, then the errors of update(), are appended.
PrependFight(p, reported) ==
    /\ pc[p] = "fight"
    /\ errs' = [errs EXCEPT ![p] =
                  ReturnedErrs(@, fightErrors(reported), ErrList(updateErrs[p]))]
    /\ remSeen' = [remSeen EXCEPT ![p].fight = reported]
    /\ pc' = [pc EXCEPT ![p] = "return"]
    /\ UNCHANGED <<storeVars, ru, updateMux, updating, validationErrs, watchErrs,
                   paused, watches, cache, arg, updateErrs, calls, entry, rd,
                   lastWatch, others>>

\* Update returns errs: the deferred updating = false, updateMux.Unlock().
\* The frame of the call (and its history) is gone.
UpdateReturn(p) ==
    /\ pc[p] = "return"
    /\ errs' = [errs EXCEPT ![p] = <<>>]
    /\ remSeen' = [remSeen EXCEPT ![p] = NoReport]
    /\ lastWatch' = NoWatch
    /\ updating' = FALSE
    /\ updateMux' = updateMux \ {p}
    /\ pc' = [pc EXCEPT ![p] = "idle"]
    /\ arg' = [arg EXCEPT ![p] = NoArg]
    /\ updateErrs' = [updateErrs EXCEPT ![p] = NoErr]
    /\ calls' = [calls EXCEPT ![p] = <<>>]
    /\ entry' = [entry EXCEPT ![p] = FreshCache(<<>>, FALSE)]
    /\ UNCHANGED <<storeVars, ru, validationErrs, watchErrs, paused, watches, cache,
                   rd, others>>

StepErrs == {NoErr, "StepError"}

Next ==
    \/ \E p \in Callers, c \in Commits, old \in Commits \cup {""} : UpdateEnter(p, c, old)
    \/ \E p \in Callers : Pause(p)
    \/ \E p \in Callers : DeclareSkip(p)
    \/ \E p \in Callers : DeclareCall(p)
    \/ \E p \in Callers : RUBuild(p)
    \/ \E p \in Callers : RUInstall(p)
    \/ \E p \in Callers : DeclareReturn(p)
    \/ \E p \in Callers : ApplySkip(p)
    \/ \E p \in Callers, err \in StepErrs : Apply(p, err)
    \/ \E p \in Callers : WatchSkip(p)
    \/ \E p \in Callers, err \in StepErrs, pruning \in SUBSET watches :
          Watch(p, err, pruning)
    \/ \E p \in Callers : Resume(p)
    \/ \E p \in Callers, reported \in ConflictErrs : PrependConflict(p, reported)
    \/ \E p \in Callers, reported \in FightErrs : PrependFight(p, reported)
    \/ \E p \in Callers : UpdateReturn(p)

Spec == Init /\ [][Next]_vars

\* ------------------------------------------------- the store on its own
InitStore ==
    /\ InitCommon
    /\ InitOthers
    /\ cache = [c \in Commits |-> FreshCache(<<>>, FALSE)]

\* A goroutine calls Resources.Update(objs, c, old).
WriterCall(w, objs, c, old) ==
    /\ ru[w].pc = "none"
    /\ declares < MaxDeclares
    /\ declares' = declares + 1
    /\ ru' = [ru EXCEPT ![w] = CallFrame(objs, c, old)]
    /\ UNCHANGED <<objectMap, commit, heap, installed, declaredResources,
                   internalErrors, updaterVars, rd, others>>

\* Resources.Update returns to that goroutine.
WriterReturn(w) ==
    /\ ru[w].pc = "done"
    /\ ru' = [ru EXCEPT ![w] = NoFrame]
    /\ UNCHANGED <<storeVars, updaterVars, rd, others>>

ReadGet(r, id) ==
    /\ rd' = [rd EXCEPT ![r] = Get(id)]
    /\ UNCHANGED <<storeVars, ru, updaterVars, others>>

ReadDeclaredObjects(r) ==
    /\ rd' = [rd EXCEPT ![r] = DeclaredObjects]
    /\ UNCHANGED <<storeVars, ru, updaterVars, others>>

ReadDeclaredUnstructureds(r) ==
    /\ rd' = [rd EXCEPT ![r] = DeclaredUnstructureds]
    /\ UNCHANGED <<storeVars, ru, updaterVars, others>>

ReadDeclaredGVKs(r) ==
    /\ rd' = [rd EXCEPT ![r] = DeclaredGVKs]
    /\ UNCHANGED <<storeVars, ru, updaterVars, others>>

HoldsObjects(r) == rd[r].op \in {"Get", "DeclaredObjects", "DeclaredUnstructureds"}

\* The caller writes into the i-th object it was handed: through the
\* pointer when it holds one, into its own copy otherwise.
Mutate(r, i) ==
    /\ HoldsObjects(r)
    /\ i \in 1..Len(rd[r].objs)
    /\ LET o == rd[r].objs[i] IN
       IF o.kind = "ref"
       THEN /\ heap[o.ref].data # Scribble
            /\ heap' = [heap EXCEPT ![o.ref].data = Scribble]
            /\ UNCHANGED rd
       ELSE /\ o.val.data # Scribble
            /\ rd' = [rd EXCEPT ![r].objs[i].val.data = Scribble]
            /\ UNCHANGED heap
    /\ UNCHANGED <<objectMap, commit, declares, installed, declaredResources,
                   internalErrors, ru, updaterVars, others>>

NextStore ==
    \/ \E w \in Writers, objs \in InputLists, c \in Commits, old \in Commits \cup {""} :
          WriterCall(w, objs, c, old)
    \/ \E w \in Writers : RUBuild(w)
    \/ \E w \in Writers : RUInstall(w)
    \/ \E w \in Writers : WriterReturn(w)
    \/ \E r \in Readers, id \in IDs : ReadGet(r, id)
    \/ \E r \in Readers : ReadDeclaredObjects(r)
    \/ \E r \in Readers : ReadDeclaredUnstructureds(r)
    \/ \E r \in Readers : ReadDeclaredGVKs(r)
    \/ \E r \in Readers, i \in 1..Len(heap) : Mutate(r, i)

SpecStore == InitStore /\ [][NextStore]_vars

\* ------------------------------------- the store over successive commits
\* A writer that declares the lists of successive commits, and a reader.
NextSuccessive ==
    \/ \E w \in Writers, objs \in SuccessiveLists, c \in Commits, old \in Commits \cup {""} :
          WriterCall(w, objs, c, old)
    \/ \E w \in Writers : RUBuild(w)
    \/ \E w \in Writers : RUInstall(w)
    \/ \E w \in Writers : WriterReturn(w)
    \/ \E r \in Readers, id \in IDs : ReadGet(r, id)
    \/ \E r \in Readers : ReadDeclaredObjects(r)
    \/ \E r \in Readers : ReadDeclaredUnstructureds(r)
    \/ \E r \in Readers : ReadDeclaredGVKs(r)

SpecSuccessive == InitStore /\ [][NextSuccessive]_vars

\* ------------------------------------------- two writers of the store
\* Two goroutines that call Resources.Update directly, without the
\* Updater's updateMux around the call.
ConcurrentWriters == {0, 1}

NextWriters ==
    \/ \E w \in ConcurrentWriters, objs \in InputLists, c \in Commits,
          old \in Commits \cup {""} : WriterCall(w, objs, c, old)
    \/ \E w \in ConcurrentWriters : RUBuild(w)
    \/ \E w \in ConcurrentWriters : RUInstall(w)
    \/ \E w \in ConcurrentWriters : WriterReturn(w)

SpecWriters == InitStore /\ [][NextWriters]_vars

\* ------------------------------------------------ the publishers on their own
\* The event loop starts: Build() hands out the publishers, their timers
\* start.
BuildGroup ==
    /\ ~group.built
    /\ group' = [built |-> TRUE, publishers |-> Build(builder)]
    /\ UNCHANGED <<builder, clock, quiet, fired>>
    /\ UNCHANGED <<storeVars, ru, updaterVars, rd, syncVars, applierVars, nsVars, remVars>>

\* Time passes while no timer is due.
Tick ==
    /\ group.built
    /\ clock < MaxTime
    /\ \A i \in 1..Len(group.publishers) : ~Due(group.publishers[i])
    /\ clock' = clock + 1
    /\ group' = [group EXCEPT !.publishers =
                    [i \in 1..Len(@) |-> [@[i] EXCEPT !.elapsed = @ + 1]]]
    /\ quiet' = [all |-> quiet.all + 1, own |-> [e \in EventTypes |-> quiet.own[e] + 1]]
    /\ UNCHANGED <<builder, fired>>
    /\ UNCHANGED <<storeVars, ru, updaterVars, rd, syncVars, applierVars, nsVars, remVars>>

\* The i-th publisher's timer is due: it publishes its event, the event loop
\* handles it (a reconcile attempt) and every publisher is told the result.
PublishEvent(i) ==
    /\ group.built
    /\ i \in 1..Len(group.publishers)
    /\ Due(group.publishers[i])
    /\ fired' = [n |-> fired.n + 1, eventType |-> group.publishers[i].eventType,
                 quietAll |-> quiet.all,
                 quietOwn |-> quiet.own[group.publishers[i].eventType]]
    /\ group' = [group EXCEPT !.publishers =
                    [j \in 1..Len(@) |->
                        IF j = i THEN Published(@[j]) ELSE HandleResult(@[j], TRUE)]]
    /\ quiet' = [all |-> 0,
                 own |-> [quiet.own EXCEPT ![group.publishers[i].eventType] = 0]]
    /\ UNCHANGED <<builder, clock>>
    /\ UNCHANGED <<storeVars, ru, updaterVars, rd, syncVars, applierVars, nsVars, remVars>>

NextEvents ==
    \/ BuildGroup
    \/ Tick
    \/ \E i \in 1..4 : PublishEvent(i)

\* The store and the Updater at rest, with nothing cached.
InitUpdaterIdle ==
    /\ InitCommon
    /\ cache = [c \in Commits |-> FreshCache(<<>>, FALSE)]

InitSpecEvents ==
    /\ InitUpdaterIdle
    /\ InitEvents
    /\ InitSyncsIdle
    /\ InitApplier
    /\ InitNamespacesIdle

SpecEvents == InitSpecEvents /\ [][NextEvents]_vars

\* ------------------------------------------------ two syncs, one live object
\* The Role is added to the source of sync s and pushed.
Declare(s) ==
    /\ ~declaredBy[s]
    /\ declaredBy' = [declaredBy EXCEPT ![s] = TRUE]
    /\ synced' = [synced EXCEPT ![s] = FALSE]
    /\ UNCHANGED <<scopes, webhook, role, syncErr, inInventory, remPaused>>
    /\ UNCHANGED <<storeVars, ru, updaterVars, rd, eventVars, applierVars, nsVars, remVars>>

\* The Role is removed from the source of sync s and pushed.
RemoveDeclaration(s) ==
    /\ declaredBy[s]
    /\ declaredBy' = [declaredBy EXCEPT ![s] = FALSE]
    /\ synced' = [synced EXCEPT ![s] = FALSE]
    /\ UNCHANGED <<scopes, webhook, role, syncErr, inInventory, remPaused>>
    /\ UNCHANGED <<storeVars, ru, updaterVars, rd, eventVars, applierVars, nsVars, remVars>>

\* nomostest.StopWebhook
StopWebhook ==
    /\ webhook
    /\ webhook' = FALSE
    /\ UNCHANGED <<scopes, declaredBy, role, syncErr, synced, inInventory, remPaused>>
    /\ UNCHANGED <<storeVars, ru, updaterVars, rd, eventVars, applierVars, nsVars, remVars>>

\* A cycle of sync s that declares the Role: it creates it, finds it its
\* own, or meets the manager of another sync.
ApplyCycle(s) ==
    /\ declaredBy[s]
    /\ role.rv < MaxVersion
    /\ LET d == IF ~role.exists \/ role.manager = s THEN "own"
                ELSE ApplyDecision(scopes[s], scopes[role.manager], webhook)
       IN /\ role' = IF ~role.exists \/ (d # "own" /\ Writes(d))
                     THEN WrittenBy(s) ELSE role
          /\ syncErr' = [syncErr EXCEPT ![s] =
                           IF d = "own" THEN NoSyncErr ELSE DecisionErr(d)]
          /\ inInventory' = [inInventory EXCEPT ![s] = d = "own" \/ Writes(d)]
          /\ remPaused' = [remPaused EXCEPT ![s] = d \in {"conflict", "denied"}]
    /\ synced' = [synced EXCEPT ![s] = TRUE]
    /\ UNCHANGED <<scopes, webhook, declaredBy>>
    /\ UNCHANGED <<storeVars, ru, updaterVars, rd, eventVars, applierVars, nsVars, remVars>>

\* A cycle of sync s that does not declare the Role (any more): it prunes
\* the Role when it may, and drops it from its inventory.
PruneCycle(s) ==
    /\ ~declaredBy[s]
    /\ ~synced[s]
    /\ role' = IF CanPrune(s) THEN [role EXCEPT !.exists = FALSE] ELSE role
    /\ inInventory' = [inInventory EXCEPT ![s] = FALSE]
    /\ syncErr' = [syncErr EXCEPT ![s] = NoSyncErr]
    /\ remPaused' = [remPaused EXCEPT ![s] = FALSE]
    /\ synced' = [synced EXCEPT ![s] = TRUE]
    /\ UNCHANGED <<scopes, webhook, declaredBy>>
    /\ UNCHANGED <<storeVars, ru, updaterVars, rd, eventVars, applierVars, nsVars, remVars>>

\* The remediator of sync s, running, sees that the Role it declares is
\* gone or names another manager.
Remediate(s) ==
    /\ declaredBy[s]
    /\ synced[s]
    /\ ~remPaused[s]
    /\ role.rv < MaxVersion
    /\ ~role.exists \/ role.manager # s
    /\ LET d == IF ~role.exists THEN "own"
                ELSE ApplyDecision(scopes[s], scopes[role.manager], webhook)
       IN /\ role' = IF d = "own" \/ Writes(d) THEN WrittenBy(s) ELSE role
          /\ syncErr' = [syncErr EXCEPT ![s] =
                           IF d = "own" THEN @ ELSE DecisionErr(d)]
          /\ inInventory' = [inInventory EXCEPT ![s] = @ \/ d = "own" \/ Writes(d)]
    /\ UNCHANGED <<scopes, webhook, declaredBy, synced, remPaused>>
    /\ UNCHANGED <<storeVars, ru, updaterVars, rd, eventVars, applierVars, nsVars, remVars>>

NextSyncs ==
    \/ \E s \in Syncs : Declare(s)
    \/ \E s \in Syncs : RemoveDeclaration(s)
    \/ StopWebhook
    \/ \E s \in Syncs : ApplyCycle(s)
    \/ \E s \in Syncs : PruneCycle(s)
    \/ \E s \in Syncs : Remediate(s)

InitSpecSyncs ==
    /\ InitUpdaterIdle
    /\ InitEventsIdle
    /\ InitSyncs
    /\ InitApplier
    /\ InitNamespacesIdle

SpecSyncs == InitSpecSyncs /\ [][NextSyncs]_vars

\* The syncs in every combination of scopes, with reconcilers and
\* remediators that keep running: every sync goes on running cycles (the
\* sync and retry timers) and its remediator workers go on processing the
\* queue while they are not paused.
InitSpecSyncsAnyScope ==
    /\ InitUpdaterIdle
    /\ InitEventsIdle
    /\ InitApplier
    /\ InitNamespacesIdle
    /\ scopes \in [Syncs -> {RootScope, NamespaceScope}]
    /\ webhook = TRUE
    /\ declaredBy = [s \in Syncs |-> FALSE]
    /\ role = NoRole
    /\ syncErr = [s \in Syncs |-> NoSyncErr]
    /\ synced = [s \in Syncs |-> FALSE]
    /\ inInventory = [s \in Syncs |-> FALSE]
    /\ remPaused = [s \in Syncs |-> FALSE]

FairSyncs ==
    \A s \in Syncs :
        /\ WF_vars(ApplyCycle(s))
        /\ WF_vars(PruneCycle(s))
        /\ WF_vars(Remediate(s))

SpecSyncsFair == InitSpecSyncsAnyScope /\ [][NextSyncs]_vars /\ FairSyncs

\* ------------------------------------------------- Applier.Run on its own
Rest == <<storeVars, ru, updaterVars, rd, eventVars, syncVars, nsVars, remVars>>

\* Run(ctx, invInfo, objects, options): the channel is made, the goroutine
\* starts.
RunStart(objs, info, policy) ==
    /\ run.pc \in {"idle", "done"}
    /\ runs < MaxRuns
    /\ runs' = runs + 1
    /\ events' = <<>>
    /\ closed' = 0
    /\ run' = [NoRun EXCEPT !.pc = "inventory", !.invInfo = info, !.objects = objs,
                            !.policy = policy, !.startLive = live,
                            !.startInv = liveInv]
    /\ UNCHANGED <<live, liveInv, Rest>>

\* validator.Validate(objects); invClient.Get, NewInventory when not found;
\* the two error returns.
AcquireInventory(fails) ==
    /\ run.pc = "inventory"
    /\ LET inv == IF liveInv.exists THEN liveInv ELSE NewInventory(run.invInfo)
           err == IF fails THEN "InventoryError"
                  ELSE IF inv.id # run.invInfo.id THEN "InventoryIDMismatch"
                  ELSE NoErr
       IN IF err # NoErr
          THEN /\ events' = Append(events, ErrorEvent(err))
               /\ run' = [run EXCEPT !.pc = "closing", !.vErrors = vCollect(run.objects)]
          ELSE /\ run' = [run EXCEPT !.pc = "prepare", !.inv = inv,
                                     !.vErrors = vCollect(run.objects)]
               /\ UNCHANGED events
    /\ UNCHANGED <<closed, runs, live, liveInv, Rest>>

\* prepareObjects and its error return.
Prepare(pruneErr) ==
    /\ run.pc = "prepare"
    /\ LET r == prepareObjects(run.inv, run.objects, pruneErr) IN
       IF r.err # NoErr
       THEN /\ events' = Append(events, ErrorEvent(r.err))
            /\ run' = [run EXCEPT !.pc = "closing", !.stamped = r.stamped]
       ELSE /\ run' = [run EXCEPT !.pc = "policy", !.stamped = r.stamped,
                                  !.applyObjs = r.applyObjs, !.pruneObjs = r.pruneObjs,
                                  !.localNs = localNamespaces(run.invInfo, run.objects)]
            /\ UNCHANGED events
    /\ UNCHANGED <<closed, runs, live, liveInv, Rest>>

\* The task queue is built; the ValidationPolicy switch; the invalid
\* objects are registered with the task context.
Policy ==
    /\ run.pc = "policy"
    /\ IF PolicyOutcome(run.policy, run.vErrors) = "abort"
       THEN /\ events' = Append(events,
                    ErrorEvent(IF run.policy = ExitEarly THEN "ValidationError"
                               ELSE "InvalidValidationPolicy"))
            /\ run' = [run EXCEPT !.pc = "closing"]
       ELSE /\ events' = events \o (IF run.policy = SkipInvalid
                                     THEN ValidationEvents(run.vErrors) ELSE <<>>)
            /\ run' = [run EXCEPT !.pc = "init",
                          !.status = [o \in AObjects |->
                                        IF o \in ApplySet THEN "pending"
                                        ELSE IF o \in PruneSet THEN "prunePending"
                                        ELSE "none"]]
    /\ UNCHANGED <<closed, runs, live, liveInv, Rest>>

\* The Init event is sent; the task runner starts.
SendInit ==
    /\ run.pc = "init"
    /\ events' = Append(events, InitEvent)
    /\ run' = [run EXCEPT !.pc = "invadd"]
    /\ UNCHANGED <<closed, runs, live, liveInv, Rest>>

\* Task: the inventory is stored with what is about to be applied added.
InvAddTask ==
    /\ run.pc = "invadd"
    /\ liveInv' = [exists |-> TRUE, id |-> run.inv.id,
                   objs |-> run.inv.objs \cup ApplySet]
    /\ run' = [run EXCEPT !.pc = "apply"]
    /\ UNCHANGED <<events, closed, runs, live, Rest>>

\* Task: one object of the current apply wave is applied, fails to apply,
\* or is skipped by the dependency filter.
ApplyObj(o, ok) ==
    /\ run.pc = "apply"
    /\ o \in ApplySet
    /\ run.status[o] = "pending"
    /\ ApplyReady(o)
    /\ IF ApplyBlocked(o)
       THEN /\ run' = [run EXCEPT !.status[o] = "applySkipped"]
            /\ events' = Append(events, ApplyEvent(o, "Skipped"))
            /\ UNCHANGED live
       ELSE IF ok
       THEN /\ run' = [run EXCEPT !.status[o] = "applied"]
            /\ events' = Append(events, ApplyEvent(o, "Successful"))
            /\ live' = live \cup {o}
       ELSE /\ run' = [run EXCEPT !.status[o] = "applyFailed"]
            /\ events' = Append(events, ApplyEvent(o, "Failed"))
            /\ UNCHANGED live
    /\ UNCHANGED <<closed, runs, liveInv, Rest>>

\* Task: the wait for an applied object ends: it is current, or the wait
\* timed out.
Reconcile(o, ok) ==
    /\ run.pc = "apply"
    /\ run.status[o] = "applied"
    /\ run' = [run EXCEPT !.status[o] = IF ok THEN "current" ELSE "reconcileFailed"]
    /\ events' = Append(events, WaitEvent(o, IF ok THEN "Reconciled" ELSE "Timeout"))
    /\ UNCHANGED <<closed, runs, live, liveInv, Rest>>

\* The apply waves are through.
ApplyDone ==
    /\ run.pc = "apply"
    /\ \A o \in ApplySet : ApplySettled(o)
    /\ run' = [run EXCEPT !.pc = "prune"]
    /\ UNCHANGED <<events, closed, runs, live, liveInv, Rest>>

\* Task: one object of the current prune wave is deleted, fails to be
\* deleted, or is skipped by a prune filter.
PruneObj(o, ok) ==
    /\ run.pc = "prune"
    /\ o \in PruneSet
    /\ run.status[o] = "prunePending"
    /\ PruneReady(o)
    /\ IF NamespaceInUse(o)
       THEN /\ run' = [run EXCEPT !.status[o] = "pruneSkipped"]
            /\ events' = Append(events, PruneEvent(o, "namespace still in use"))
            /\ UNCHANGED live
       ELSE IF PruneBlocked(o)
       THEN /\ run' = [run EXCEPT !.status[o] = "pruneSkipped"]
            /\ events' = Append(events, PruneEvent(o, "dependent still alive"))
            /\ UNCHANGED live
       ELSE IF ok
       THEN /\ run' = [run EXCEPT !.status[o] = "pruned"]
            /\ events' = Append(events, PruneEvent(o, "Successful"))
            /\ live' = live \ {o}
       ELSE /\ run' = [run EXCEPT !.status[o] = "pruneFailed"]
            /\ events' = Append(events, PruneEvent(o, "Failed"))
            /\ UNCHANGED live
    /\ UNCHANGED <<closed, runs, liveInv, Rest>>

\* Task: the prune waves are through; the inventory is stored with the
\* outcome; the runner returns nil.
InvSetTask ==
    /\ run.pc = "prune"
    /\ \A o \in PruneSet : PruneSettled(o)
    /\ liveInv' = [liveInv EXCEPT !.objs = FinalInventory]
    /\ run' = [run EXCEPT !.pc = "closing"]
    /\ UNCHANGED <<events, closed, runs, live, Rest>>

\* runner.Run returns an error (the context was cancelled): handleError.
RunnerFails ==
    /\ run.pc \in {"invadd", "apply", "prune"}
    /\ events' = Append(events, ErrorEvent("RunnerError"))
    /\ run' = [run EXCEPT !.pc = "closing"]
    /\ UNCHANGED <<closed, runs, live, liveInv, Rest>>

\* The channel closed at the end of the goroutine's body and not by a
\* deferred call: a return after handleError leaves it open.
CloseChannelNotDeferred ==
    /\ run.pc = "closing"
    /\ closed' = IF events # <<>> /\ events[Len(events)].type = "Error"
                 THEN closed ELSE closed + 1
    /\ run' = [run EXCEPT !.pc = "done"]
    /\ UNCHANGED <<events, runs, live, liveInv, Rest>>

\* The goroutine returns: the deferred close(eventChannel).
CloseChannel ==
    /\ run.pc = "closing"
    /\ closed' = closed + 1
    /\ run' = [run EXCEPT !.pc = "done"]
    /\ UNCHANGED <<events, runs, live, liveInv, Rest>>

NextApplier ==
    \/ \E objs \in ObjectLists, info \in InvInfos, policy \in Policies :
          RunStart(objs, info, policy)
    \/ \E fails \in BOOLEAN : AcquireInventory(fails)
    \/ \E pruneErr \in BOOLEAN : Prepare(pruneErr)
    \/ Policy
    \/ SendInit
    \/ InvAddTask
    \/ \E o \in AObjects, ok \in BOOLEAN : ApplyObj(o, ok)
    \/ \E o \in AObjects, ok \in BOOLEAN : Reconcile(o, ok)
    \/ ApplyDone
    \/ \E o \in AObjects, ok \in BOOLEAN : PruneObj(o, ok)
    \/ InvSetTask
    \/ RunnerFails
    \/ CloseChannel

InitSpecApplier ==
    /\ InitUpdaterIdle
    /\ InitEventsIdle
    /\ InitSyncsIdle
    /\ InitApplier
    /\ InitNamespacesIdle

SpecApplier == InitSpecApplier /\ [][NextApplier]_vars

\* A step of the goroutine of Run, or of the task runner it calls.
RunStep ==
    \/ \E fails \in BOOLEAN : AcquireInventory(fails)
    \/ \E pruneErr \in BOOLEAN : Prepare(pruneErr)
    \/ Policy
    \/ SendInit
    \/ InvAddTask
    \/ \E o \in AObjects, ok \in BOOLEAN : ApplyObj(o, ok)
    \/ \E o \in AObjects, ok \in BOOLEAN : Reconcile(o, ok)
    \/ ApplyDone
    \/ \E o \in AObjects, ok \in BOOLEAN : PruneObj(o, ok)
    \/ InvSetTask
    \/ RunnerFails
    \/ CloseChannel

\* The goroutine started by Run is scheduled, every send on the unbuffered
\* channel is received, and every task of the runner ends (a wait ends
\* reconciled or timed out): a run that can take a step takes one. Whether
\* and when Run is called again is the caller's choice.
FairApplier == WF_vars(RunStep)

\* The calls of Run that reach each of its returns: a valid list, a list
\* with an invalid object, a list that holds the inventory object; the
\* inventory of the cluster and another one.
FairObjectLists == { <<"ns-foo", "cm1">>, <<"cm1", "bad">>, <<"cm1", "invobj">> }
FairInvInfos == { [id |-> "inv1", namespace |-> ""], [id |-> "inv2", namespace |-> ""] }

NextApplierFair ==
    \/ \E objs \in FairObjectLists, info \in FairInvInfos, policy \in Policies :
          RunStart(objs, info, policy)
    \/ RunStep

SpecApplierFair == InitSpecApplier /\ [][NextApplierFair]_vars /\ FairApplier

\* ------------------------------------------- namespace strategy on its own
NotNamespaces == <<storeVars, ru, updaterVars, rd, eventVars, syncVars, applierVars,
                   remVars>>

\* spec.override.namespaceStrategy of the RootSync is patched.
SetStrategy(s, st) ==
    /\ strategy[s] # st
    /\ strategy' = [strategy EXCEPT ![s] = st]
    /\ nsStatus' = [nsStatus EXCEPT ![s] = "pending"]
    /\ UNCHANGED <<nsDeclared, cmDeclared, nsLive, cmLive, NotNamespaces>>

\* A ConfigMap in the namespace is added to the source of sync s and pushed.
AddConfigMap(s) ==
    /\ ~cmDeclared[s]
    /\ cmDeclared' = [cmDeclared EXCEPT ![s] = TRUE]
    /\ nsStatus' = [nsStatus EXCEPT ![s] = "pending"]
    /\ UNCHANGED <<strategy, nsDeclared, nsLive, cmLive, NotNamespaces>>

\* The Namespace is added to the source of sync s and pushed.
AddNamespace(s) ==
    /\ ~nsDeclared[s]
    /\ nsDeclared' = [nsDeclared EXCEPT ![s] = TRUE]
    /\ nsStatus' = [nsStatus EXCEPT ![s] = "pending"]
    /\ UNCHANGED <<strategy, cmDeclared, nsLive, cmLive, NotNamespaces>>

\* A cycle of sync s: the Namespace is applied when the sync applies it,
\* then the ConfigMap, which the API server rejects while the Namespace
\* does not exist ("namespaces ... not found").
SyncCycle(s) ==
    /\ nsLive' = NamespaceAfter(s)
    /\ IF cmDeclared[s] /\ ~NamespaceAfter(s).exists
       THEN /\ nsStatus' = [nsStatus EXCEPT ![s] = "ApplierError"]
            /\ UNCHANGED cmLive
       ELSE /\ nsStatus' = [nsStatus EXCEPT ![s] = "synced"]
            /\ cmLive' = [cmLive EXCEPT ![s] = cmDeclared[s]]
    /\ UNCHANGED <<strategy, nsDeclared, cmDeclared, NotNamespaces>>

NextNamespaces ==
    \/ \E s \in RootSyncs, st \in {Explicit, Implicit} : SetStrategy(s, st)
    \/ \E s \in RootSyncs : AddConfigMap(s)
    \/ \E s \in RootSyncs : AddNamespace(s)
    \/ \E s \in RootSyncs : SyncCycle(s)

InitSpecNamespaces ==
    /\ InitUpdaterIdle
    /\ InitEventsIdle
    /\ InitSyncsIdle
    /\ InitApplier
    /\ InitNamespaces

SpecNamespaces == InitSpecNamespaces /\ [][NextNamespaces]_vars

\* --------------------------------------- one reconciler and its remediator
\* The goroutine of the reconciler that calls Updater.Update.
Reconciler == {1}

\* The parse results of two commits of one source: the second commit
\* removes the ConfigMap.
InitSpecRemediator ==
    /\ InitCommon
    /\ InitOthers
    /\ cache = [c \in Commits |->
                  FreshCache(IF c = "c1" THEN <<NsFoo, CmA>> ELSE <<NsFoo>>, FALSE)]

\* A watcher reports an object of a watched kind; an ID that is already
\* queued is not queued twice.  Watchers run whether or not the workers are
\* paused.
Enqueue(id) ==
    /\ id.kind \in watches
    /\ \A it \in remQueue : it.id # id
    /\ remQueue' = remQueue \cup {Item(id)}
    /\ UNCHANGED <<storeVars, ru, updaterVars, rd, eventVars, syncVars, applierVars,
                   nsVars, lastFix, lastErrors>>

\* A worker dequeues an ID, looks the declared version up in the store and
\* corrects the live object.
Worker(it) ==
    /\ WorkersRun(paused)
    /\ it \in remQueue
    /\ remQueue' = remQueue \ {it}
    /\ lastFix' = [done |-> TRUE, item |-> it, action |-> Decide(it.id),
                   against |-> getObjectMap]
    /\ UNCHANGED <<storeVars, ru, updaterVars, rd, eventVars, syncVars, applierVars,
                   nsVars, lastErrors>>

NextRemediator ==
    \/ \E p \in Reconciler, c \in Commits, old \in Commits \cup {""} : UpdateEnter(p, c, old)
    \/ \E p \in Reconciler : Pause(p)
    \/ \E p \in Reconciler : DeclareSkip(p)
    \/ \E p \in Reconciler : DeclareCall(p)
    \/ \E p \in Reconciler : RUBuild(p)
    \/ \E p \in Reconciler : RUInstall(p)
    \/ \E p \in Reconciler : DeclareReturn(p)
    \/ \E p \in Reconciler : ApplySkip(p)
    \/ \E p \in Reconciler, err \in StepErrs : Apply(p, err)
    \/ \E p \in Reconciler : WatchSkip(p)
    \/ \E p \in Reconciler, err \in StepErrs, pruning \in SUBSET watches :
          Watch(p, err, pruning)
    \/ \E p \in Reconciler : Resume(p)
    \/ \E p \in Reconciler, reported \in ConflictErrs : PrependConflict(p, reported)
    \/ \E p \in Reconciler, reported \in FightErrs : PrependFight(p, reported)
    \/ \E p \in Reconciler : UpdateReturn(p)
    \/ \E id \in LiveIDs : Enqueue(id)
    \/ \E it \in remQueue : Worker(it)

SpecRemediator == InitSpecRemediator /\ [][NextRemediator]_vars

\* ------------------------------------- one reconciler and a status reader
\* The parse results of two commits of one source: the second commit
\* removes the Namespace, which the store refuses.
InitSpecErrors ==
    /\ InitCommon
    /\ InitOthers
    /\ cache = [c \in Commits |->
                  FreshCache(IF c = "c1" THEN <<NsFoo, CmA>> ELSE <<CmB>>, FALSE)]

\* Another goroutine calls Updater.Errors: under errorMux.RLock it collects
\* what the remediator and the applier report and the two error fields.
\* `during` is history: a cycle held updateMux at that moment.
ErrorsCall(ce, fe, ae) ==
    /\ lastErrors' = [called |-> TRUE,
                      errs |-> Errors(ce, fe, validationErrs, ae, watchErrs),
                      conflict |-> ce, fight |-> fe, validation |-> validationErrs,
                      applier |-> ae, watch |-> watchErrs,
                      during |-> updateMux # {}]
    /\ UNCHANGED <<storeVars, ru, updaterVars, rd, eventVars, syncVars, applierVars,
                   nsVars, remQueue, lastFix>>

NextErrors ==
    \/ \E p \in Reconciler, c \in Commits, old \in Commits \cup {""} : UpdateEnter(p, c, old)
    \/ \E p \in Reconciler : Pause(p)
    \/ \E p \in Reconciler : DeclareSkip(p)
    \/ \E p \in Reconciler : DeclareCall(p)
    \/ \E p \in Reconciler : RUBuild(p)
    \/ \E p \in Reconciler : RUInstall(p)
    \/ \E p \in Reconciler : DeclareReturn(p)
    \/ \E p \in Reconciler : ApplySkip(p)
    \/ \E p \in Reconciler, err \in StepErrs : Apply(p, err)
    \/ \E p \in Reconciler : WatchSkip(p)
    \/ \E p \in Reconciler, err \in StepErrs, pruning \in SUBSET watches :
          Watch(p, err, pruning)
    \/ \E p \in Reconciler : Resume(p)
    \/ \E p \in Reconciler, reported \in ConflictErrs : PrependConflict(p, reported)
    \/ \E p \in Reconciler, reported \in FightErrs : PrependFight(p, reported)
    \/ \E p \in Reconciler : UpdateReturn(p)
    \/ \E ce \in ConflictErrs, fe \in FightErrs, ae \in ApplierErrs : ErrorsCall(ce, fe, ae)

SpecErrors == InitSpecErrors /\ [][NextErrors]_vars


\* ================================================================ claims

\* What every read of the store is computed from: the map, the commit and
\* the content of the objects the map points to.
StoreView ==
    [objSet |-> objectMap, commit |-> commit,
     vals |-> [i \in 1..Len(objectMap.pairs) |-> heap[objectMap.pairs[i].ref]]]

\* The read result res is the read of the one snapshot s.
ReadOf(res, s) ==
    /\ res.commit = s.commit
    /\ CASE res.op = "Get" ->
              IF res.found
              THEN /\ HasKey(s.objSet.pairs, res.id)
                   /\ res.objs[1].from = RefOf(s.objSet.pairs, res.id)
              ELSE ~HasKey(s.objSet.pairs, res.id)
         [] res.op \in {"DeclaredObjects", "DeclaredUnstructureds"} ->
              /\ Len(res.objs) = Len(s.objSet.pairs)
              /\ \A i \in 1..Len(res.objs) : res.objs[i].ref = s.objSet.pairs[i].ref
         [] res.op = "DeclaredGVKs" ->
              res.gvks = { s.objSet.pairs[i].id.kind : i \in 1..Len(s.objSet.pairs) }

\* C1: whatever a reader was handed by Get, DeclaredObjects,
\* DeclaredUnstructureds or DeclaredGVKs, however its read interleaved with
\* Resources.Update, is the objects and the commit of one single snapshot
\* that Update installed (or of the empty initial store).
C1_ReadsOneSnapshot ==
    \A r \in Readers :
        rd[r].op # "none" => \E s \in installed : ReadOf(rd[r], s)

\* C1 witness: a reader holds the objects of the first snapshot while the
\* store already serves a second one with another commit.
C1_Witness ==
    \E r \in Readers :
        /\ rd[r].op = "DeclaredObjects"
        /\ Len(rd[r].objs) > 0
        /\ rd[r].commit # commit
        /\ Cardinality(installed) = 3


\* C2: a step in which a caller writes into the object that Get handed it
\* leaves every later read of the store as it was: Get returned a deep copy.
C2_GetCopyIsPrivate ==
    [][\A r \in Readers :
          (rd[r].op = "Get" /\ \E i \in 1..Len(heap) : Mutate(r, i))
              => StoreView' = StoreView]_vars

\* C2 witness: the caller has scribbled on the copy Get handed it, the
\* object is still served by the store, and the stored object is untouched.
C2_Witness ==
    \E r \in Readers :
        /\ rd[r].op = "Get"
        /\ rd[r].found
        /\ rd[r].objs[1].kind = "copy"
        /\ rd[r].objs[1].val.data = Scribble
        /\ HasKey(objectMap.pairs, rd[r].id)
        /\ RefOf(objectMap.pairs, rd[r].id) = rd[r].objs[1].from
        /\ heap[rd[r].objs[1].from].data # Scribble

\* C3 (as claimed): a step in which a caller writes into an object that any
\* read handed it -- Get, DeclaredObjects or DeclaredUnstructureds -- leaves
\* every later read of the store as it was.
C3_NoReadHandsOutInternals ==
    [][\A r \in Readers :
          (HoldsObjects(r) /\ \E i \in 1..Len(heap) : Mutate(r, i))
              => StoreView' = StoreView]_vars


\* ---------------------------------------------------------- Updater claims
InFlight(p) == pc[p] # "idle"

\* Position of a collaborator call in the documented order of a cycle.
Rank(call) ==
    CASE call = "Pause" -> 1
      [] call = "Update" -> 2
      [] call = "Apply" -> 3
      [] call = "UpdateWatches" -> 4
      [] call = "Resume" -> 5

InOrder(cs) == \A i, j \in 1..Len(cs) : i < j => Rank(cs[i]) < Rank(cs[j])

Succeeded(p) == pc[p] = "ret" /\ updateErrs[p] = NoErr

Failed(p) == pc[p] = "ret" /\ updateErrs[p] # NoErr

\* C4: at no point are two callers of Updater.Update inside a cycle, and
\* the caller that is inside is the one holder of updateMux.
C4_OneCycleInFlight ==
    /\ Cardinality({ p \in Callers : InFlight(p) }) <= 1
    /\ \A p \in Callers : InFlight(p) => updateMux = {p}

\* C4 witness: one caller is in the apply step of a later cycle (a snapshot
\* is installed already) while the other caller is outside.
C4_Witness ==
    \E p, q \in Callers :
        /\ p # q
        /\ pc[p] = "apply"
        /\ pc[q] = "idle"
        /\ "Update" \notin { calls[p][i] : i \in 1..Len(calls[p]) }
        /\ ~objectMap.nil

\* C5: the calls of a cycle are made in the order Pause, Update, Apply,
\* UpdateWatches, Resume, none twice; from the call of Pause to the call of
\* Resume the remediator is paused; and a cycle whose steps all succeeded
\* called Pause first and Resume last.
C5_StepOrder ==
    \A p \in Callers :
        /\ InOrder(calls[p])
        /\ pc[p] \in {"declare", "declaring", "apply", "watch", "resume"} => paused
        /\ pc[p] \in {"declare", "declaring", "apply", "watch", "resume"}
              => (calls[p] # <<>> /\ calls[p][1] = "Pause")
        /\ Succeeded(p) =>
              /\ Len(calls[p]) >= 2
              /\ calls[p][1] = "Pause"
              /\ calls[p][Len(calls[p])] = "Resume"

\* C5 witness: a cycle that ran every step has returned nil.
C5_Witness ==
    \E p \in Callers :
        /\ Succeeded(p)
        /\ calls[p] = <<"Pause", "Update", "Apply", "UpdateWatches", "Resume">>

\* C6 (as claimed): whenever update() has returned, with or without an
\* error, the remediator has been resumed.
C6_AlwaysResumed ==
    \A p \in Callers : pc[p] = "ret" => ~paused

\* C6 (amended): when update() returns nil the remediator has been resumed,
\* Resume being the last call of the cycle; when it returns the error of a
\* failed step, Resume was not called and the remediator is still paused.
C6_ResumedIffNoStepError ==
    \A p \in Callers :
        /\ Succeeded(p) => (~paused /\ calls[p][Len(calls[p])] = "Resume")
        /\ Failed(p) =>
              (paused /\ "Resume" \notin { calls[p][i] : i \in 1..Len(calls[p]) })

\* C6 witness: a retry that skipped the declare step has returned nil and
\* left the remediator running.
C6_Witness ==
    \E p \in Callers :
        /\ Succeeded(p)
        /\ ~paused
        /\ calls[p] = <<"Pause", "Apply", "UpdateWatches", "Resume">>

\* C7: a cycle on a cache without parser errors whose declare step succeeded
\* and whose apply step failed returns with declaredResourcesUpdated set;
\* and a cycle entered with declaredResourcesUpdated set and applied unset
\* never calls Resources.Update: its first call after Pause is Apply.
C7_PartialProgressResume ==
    \A p \in Callers :
        /\ ( /\ Failed(p)
             /\ ~entry[p].parserErrs
             /\ calls[p] = <<"Pause", "Update", "Apply">> )
              => cache[arg[p].commit].declaredResourcesUpdated
        /\ ( /\ InFlight(p)
             /\ entry[p].declaredResourcesUpdated
             /\ ~entry[p].applied )
              => /\ "Update" \notin { calls[p][i] : i \in 1..Len(calls[p]) }
                 /\ Len(calls[p]) >= 2 => calls[p][2] = "Apply"
                 /\ pc[p] \in {"watch", "resume", "ret"} => Len(calls[p]) >= 2

\* C7 witness: the retry after a failed apply is past its apply step and
\* has called Pause and Apply only.
C7_Witness ==
    \E p \in Callers :
        /\ pc[p] = "watch"
        /\ entry[p].declaredResourcesUpdated
        /\ ~entry[p].applied
        /\ calls[p] = <<"Pause", "Apply">>

\* C8: a cache that carries parser errors has none of its three flags set,
\* and a cycle on it whose steps all succeeded has called Resources.Update,
\* Applier.Apply and Remediator.UpdateWatches.
C8_ParserErrsBlockFlags ==
    /\ \A c \in Commits :
          cache[c].parserErrs =>
              /\ ~cache[c].declaredResourcesUpdated
              /\ ~cache[c].applied
              /\ ~cache[c].watchesUpdated
    /\ \A p \in Callers :
          (Succeeded(p) /\ cache[arg[p].commit].parserErrs)
              => calls[p] = <<"Pause", "Update", "Apply", "UpdateWatches", "Resume">>

\* C8 witness: the second successful cycle on one cache with parser errors
\* (both of its declares installed a snapshot for that commit).
C8_Witness ==
    \E p \in Callers :
        /\ Succeeded(p)
        /\ cache[arg[p].commit].parserErrs
        /\ Cardinality({ s \in installed : s.commit = arg[p].commit }) = 2

\* C9: no step of Updater.Update unsets a progress flag, and when a cycle
\* returns the error of a failed step, the flag of that step and of every
\* later step is as it was on entry of the cycle.
C9_FlagsNeverReset ==
    /\ [][\A c \in Commits :
             /\ cache[c].declaredResourcesUpdated => cache'[c].declaredResourcesUpdated
             /\ cache[c].applied => cache'[c].applied
             /\ cache[c].watchesUpdated => cache'[c].watchesUpdated]_vars
    /\ [](\A p \in Callers :
             Failed(p) =>
                LET last == Rank(calls[p][Len(calls[p])])
                    now == cache[arg[p].commit]
                IN /\ last <= 2 =>
                        now.declaredResourcesUpdated = entry[p].declaredResourcesUpdated
                   /\ last <= 3 => now.applied = entry[p].applied
                   /\ last <= 4 => now.watchesUpdated = entry[p].watchesUpdated)

\* C9 witness: a cycle entered with declaredResourcesUpdated set has failed
\* in its apply step and the flag is still set.
C9_Witness ==
    \E p \in Callers :
        /\ Failed(p)
        /\ calls[p] = <<"Pause", "Apply">>
        /\ entry[p].declaredResourcesUpdated
        /\ cache[arg[p].commit].declaredResourcesUpdated
        /\ ~cache[arg[p].commit].applied

\* C10: when Resources.Update returns the namespace-retention error the
\* store still serves the map and the commit it served when the call
\* sampled them, and the cycle returns that error having called Pause and
\* Resources.Update only.
C10_RetentionErrorNoMutation ==
    \A p \in Callers :
        /\ (ru[p].pc = "done" /\ ru[p].err = "NamespaceRetentionError")
              => getObjectMap = ru[p].seen
        /\ (pc[p] = "ret" /\ updateErrs[p] = "NamespaceRetentionError")
              => /\ calls[p] = <<"Pause", "Update">>
                 /\ ~cache[arg[p].commit].declaredResourcesUpdated

\* C10 witness: a cycle for another commit has returned the retention error
\* while the store serves the snapshot that declares the namespace.
C10_Witness ==
    \E p \in Callers :
        /\ pc[p] = "ret"
        /\ updateErrs[p] = "NamespaceRetentionError"
        /\ NamespacesOf(objectMap.pairs) # {}
        /\ commit # arg[p].commit

\* C11: the error Update returns is the conflict errors the remediator
\* reported, then the fight errors it reported, then the error of this
\* cycle's failing step, in that order; a cycle whose steps all succeeded
\* still returns a non-empty error when the remediator reported a conflict
\* or a fight.
C11_ReturnPrependsRemediatorErrs ==
    \A p \in Callers :
        pc[p] = "return" =>
            /\ errs[p] = remSeen[p].conflict \o remSeen[p].fight
                             \o (IF updateErrs[p] = NoErr THEN <<>> ELSE <<updateErrs[p]>>)
            /\ (remSeen[p].conflict # <<>> \/ remSeen[p].fight # <<>>) => errs[p] # <<>>

\* C11 witness: every step of the cycle ran and succeeded, and Update
\* returns the conflict and the fight error of the remediator.
C11_Witness ==
    \E p \in Callers :
        /\ pc[p] = "return"
        /\ updateErrs[p] = NoErr
        /\ calls[p] = <<"Pause", "Update", "Apply", "UpdateWatches", "Resume">>
        /\ errs[p] = <<"ManagementConflict", "Fight">>

AllFlags(c) == c.declaredResourcesUpdated /\ c.applied /\ c.watchesUpdated

\* C12: a cycle entered on a commit cache whose three progress flags are all
\* set (a previous cycle of that commit set them) calls neither
\* Resources.Update nor Applier.Apply nor Remediator.UpdateWatches, and no
\* step taken while it runs changes the installed snapshot.
C12_SettledCycleIsNoOp ==
    /\ [](\A p \in Callers :
             (InFlight(p) /\ AllFlags(entry[p])) =>
                \A i \in 1..Len(calls[p]) : calls[p][i] \in {"Pause", "Resume"})
    /\ [][\A p \in Callers :
             (InFlight(p) /\ AllFlags(entry[p])) =>
                UNCHANGED <<objectMap, commit, heap, declares, installed>>]_vars

\* C12 witness: the second cycle of a commit has ended, having only paused
\* and resumed the remediator, with the snapshot of that commit installed.
C12_Witness ==
    \E p \in Callers :
        /\ pc[p] = "return"
        /\ AllFlags(entry[p])
        /\ calls[p] = <<"Pause", "Resume">>
        /\ commit = arg[p].commit
        /\ Len(objectMap.pairs) > 0

\* The kinds of the objects of the installed snapshot.
SnapshotGVKs == { heap[objectMap.pairs[i].ref].kind : i \in 1..Len(objectMap.pairs) }

WatchDone(p) ==
    /\ lastWatch.called
    /\ calls[p] # <<>>
    /\ \/ pc[p] = "resume" /\ calls[p][Len(calls[p])] = "UpdateWatches"
       \/ pc[p] \in {"ret", "fight", "return"} /\ updateErrs[p] = NoErr
          /\ \E i \in 1..Len(calls[p]) : calls[p][i] = "UpdateWatches"

\* C13: after a cycle's watch-update step completed without error, the
\* kinds the remediator watches are the kinds of the objects of the
\* installed snapshot plus the watched kinds of objects still being pruned,
\* and what the Updater passed to UpdateWatches is exactly the set of kinds
\* of the installed snapshot.
C13_WatchesMatchSnapshot ==
    \A p \in Callers :
        WatchDone(p) =>
            /\ lastWatch.gvks = SnapshotGVKs
            /\ watches = SnapshotGVKs \cup lastWatch.pruning

\* C13 witness: a cycle replaced a snapshot with namespaces and config maps
\* by one without namespaces; its watch update succeeded while nothing was
\* being pruned, and only config maps are watched.
C13_Witness ==
    \E p \in Callers :
        /\ WatchDone(p)
        /\ pc[p] = "return"
        /\ Cardinality(installed) = 3
        /\ lastWatch.pruning = {}
        /\ watches = {"ConfigMap"}

\* The place of an event type in the order in which Build is to create
\* the publishers.
TypeRank(e) ==
    CASE e = SyncEventType -> 1
      [] e = NamespaceSyncEventType -> 2
      [] e = RetrySyncEventType -> 3
      [] e = StatusUpdateEventType -> 4
      [] OTHER -> 0

HasPublisher(e) ==
    \E i \in 1..Len(group.publishers) : group.publishers[i].eventType = e

\* C18: the publishers Build returns contain a Sync publisher iff
\* SyncPeriod > 0, a NamespaceSync publisher iff NamespaceControllerPeriod > 0,
\* a Retry publisher iff RetryBackoff.Duration > 0 and a StatusUpdate
\* publisher iff StatusUpdatePeriod > 0; they are of these four types only,
\* at most one of each, in this relative order.
C18_BuildOnlyPositive ==
    group.built =>
        /\ HasPublisher(SyncEventType) <=> builder.SyncPeriod > 0
        /\ HasPublisher(NamespaceSyncEventType) <=> builder.NamespaceControllerPeriod > 0
        /\ HasPublisher(RetrySyncEventType) <=> builder.RetryBackoff.Duration > 0
        /\ HasPublisher(StatusUpdateEventType) <=> builder.StatusUpdatePeriod > 0
        /\ \A i \in 1..Len(group.publishers) :
              group.publishers[i].eventType \in EventTypes
        /\ \A i, j \in 1..Len(group.publishers) :
              i < j => TypeRank(group.publishers[i].eventType)
                         < TypeRank(group.publishers[j].eventType)

\* C18 witness: Build ran on a builder with a positive sync period and
\* retry backoff, a zero namespace-controller period and a negative status
\* period, and returned the sync and the retry publisher.
C18_Witness ==
    /\ group.built
    /\ builder.SyncPeriod > 0
    /\ builder.NamespaceControllerPeriod = 0
    /\ builder.RetryBackoff.Duration > 0
    /\ builder.StatusUpdatePeriod < 0
    /\ Len(group.publishers) = 2
    /\ group.publishers[1].eventType = SyncEventType
    /\ group.publishers[2].eventType = RetrySyncEventType

\* C19: whenever an event of another type is published (a reconcile is
\* attempted because of it) the timer of the Sync publisher restarts, so
\* that a Sync event is published only after a full SyncPeriod without any
\* other event; NamespaceSync and StatusUpdate events are published exactly
\* one period after the previous event of their own type (or after the
\* start), whatever other events were published in between.
C19_SyncTimerResetOthersIndependent ==
    /\ [](fired.eventType = SyncEventType => fired.quietAll >= builder.SyncPeriod)
    /\ [](fired.eventType = NamespaceSyncEventType =>
             fired.quietOwn = builder.NamespaceControllerPeriod)
    /\ [](fired.eventType = StatusUpdateEventType =>
             fired.quietOwn = builder.StatusUpdatePeriod)
    /\ [][(fired'.n # fired.n /\ fired'.eventType # SyncEventType) =>
             \A i \in 1..Len(group'.publishers) :
                group'.publishers[i].eventType = SyncEventType =>
                    group'.publishers[i].elapsed = 0]_vars

\* C19 witness: with a sync period of 2 and a status period of 1 the
\* status event was published again and again, one tick apart, each time
\* after a tick during which the sync timer had been running.
C19_Witness ==
    /\ builder.SyncPeriod = 2
    /\ builder.StatusUpdatePeriod = 1
    /\ fired.eventType = StatusUpdateEventType
    /\ fired.n >= 3
    /\ clock >= 3
    /\ HasPublisher(SyncEventType)

BothDeclare == \A s \in Syncs : declaredBy[s]

\* The sync has synced its declaration of the Role and the live Role names
\* the other sync as its manager.
Loser(s) == BothDeclare /\ synced[s] /\ role.exists /\ role.manager # s

C14_WitnessNamespace ==
    /\ \E s \in Syncs : Loser(s) /\ scopes[s] = NamespaceScope
    /\ role.rv = 1

\* ---------------------------------------------------------------- C20
ValidationFailed == vCollect(run.objects) # <<>>

\* C20: under ValidationPolicy ExitEarly a run whose validation collected an
\* error sends nothing but one Error event (no Init, Apply or Prune event),
\* executes no task and leaves the objects and the inventory on the cluster
\* as they were, and has closed the channel once when it is over.
C20_ExitEarlyAborts ==
    (run.pc # "idle" /\ run.policy = ExitEarly /\ ValidationFailed) =>
        /\ Len(events) <= 1
        /\ \A i \in 1..Len(events) : events[i].type = "Error"
        /\ \A o \in AObjects : run.status[o] = "none"
        /\ live = run.startLive
        /\ liveInv = run.startInv
        /\ run.pc \notin {"init", "invadd", "apply", "prune"}
        /\ closed = (IF run.pc = "done" THEN 1 ELSE 0)
        /\ run.pc \in {"closing", "done"} => Len(events) = 1

C20_Witness ==
    /\ run.pc = "done"
    /\ run.policy = ExitEarly
    /\ ValidationFailed
    /\ events = <<ErrorEvent("ValidationError")>>
    /\ closed = 1
    /\ run.startLive # {}

\* ---------------------------------------------------------------- C16
\* The namespaces in use in the run: those of the namespaced objects to
\* apply and that of the inventory object.
InUse(ns) ==
    \/ \E o \in Range(run.objects) : ObjNamespace(o) = ns
    \/ run.invInfo.namespace = ns

NamespaceObjects == { n \in AObjects : ObjKind(n) = "Namespace" }

DependencyPairs == { <<a, b>> \in AObjects \X AObjects : b \in DependsOn(a) }

AppliedNow(o) == run.status[o] = "pending" /\ run'.status[o] = "applied"
PrunedNow(o) == run.status[o] = "prunePending" /\ run'.status[o] = "pruned"

\* C15: when A depends on B, A is applied only when B is current, B is
\* pruned only when A is absent, and A is not applied in a run in which the
\* apply of B failed.
C15_DependencyOrder ==
    /\ [][\A p \in DependencyPairs :
            /\ AppliedNow(p[1]) => run.status[p[2]] = "current"
            /\ PrunedNow(p[2]) => p[1] \notin live]_vars
    /\ [](\A p \in DependencyPairs :
            run.status[p[2]] = "applyFailed" =>
                /\ run.status[p[1]] \notin {"applied", "current", "reconcileFailed"}
                /\ \A i \in 1..Len(events) :
                      events[i] # ApplyEvent(p[1], "Successful"))

C15_Witness ==
    /\ run.status["b"] = "current"
    /\ run.status["a"] = "applied"
    /\ events[Len(events)] = ApplyEvent("a", "Successful")

C15_WitnessSkipped ==
    /\ run.status["b"] = "applyFailed"
    /\ run.status["a"] = "applySkipped"

C15_WitnessPrune ==
    /\ run.status["a"] = "pruned"
    /\ run.status["b"] = "pruned"
    /\ "a" \in run.startLive

\* ---------------------------------------------------------------- C17
\* A run that is over and in which nothing failed, was skipped or was
\* invalid.
Successful ==
    /\ run.pc = "done"
    /\ events # <<>>
    /\ \A i \in 1..Len(events) :
          \/ events[i].type = "Init"
          \/ events[i].status \in {"Successful", "Reconciled"}

\* C17: after a successful run the inventory on the cluster holds exactly
\* the objects of the set handed to the run.
C17_InventoryCoverage ==
    Successful => (liveInv.exists /\ liveInv.objs = Range(run.objects))

C17_Witness ==
    /\ Successful
    /\ run.objects = <<"cm1">>
    /\ run.status["a"] = "pruned"
    /\ liveInv.objs = {"cm1"}
    /\ live = {"cm1"}

\* ---------------------------------------------------------------- C21
EventsOfType(t) == { i \in 1..Len(events) : events[i].type = t }

PastPolicy == run.pc \in {"init", "invadd", "apply", "prune"}

\* The run went through all its tasks.
RanToEnd == run.pc = "done" /\ events[Len(events)].type # "Error"

\* C21: under ValidationPolicy SkipInvalid the run goes on past the policy
\* switch; its first events are one Validation event per invalid object, in
\* the order of the collector, and the Init event follows them; an invalid
\* object is never applied or pruned and no Apply or Prune event names it;
\* the valid objects are scheduled; and when the run has gone through its
\* tasks every invalid object the inventory held is still in the inventory.
C21_SkipInvalidContinues ==
    /\ [][(run.pc = "policy" /\ run.policy = SkipInvalid /\ run'.pc # "policy") =>
            /\ run'.pc = "init"
            /\ events' = events \o [i \in 1..Len(run.vErrors) |->
                                       ValidationEvent(run.vErrors[i])]]_vars
    /\ []((run.policy = SkipInvalid /\ (PastPolicy \/ RanToEnd)) =>
            LET invalid == vCollect(run.objects) IN
            /\ Cardinality(EventsOfType("Validation")) = Len(invalid)
            /\ \A i \in 1..Len(invalid) : events[i] = ValidationEvent(invalid[i])
            /\ \A i \in EventsOfType("Init") : i = Len(invalid) + 1
            /\ run.pc # "init" => EventsOfType("Init") # {}
            /\ \A o \in Range(invalid) :
                  /\ run.status[o] = "none"
                  /\ o \in live <=> o \in run.startLive
                  /\ \A i \in EventsOfType("Apply") \cup EventsOfType("Prune") :
                        events[i].obj # o
                  /\ (RanToEnd /\ o \in run.startInv.objs) => o \in liveInv.objs
            /\ \A o \in Range(run.objects) \ Range(invalid) : run.status[o] # "none")

C21_Witness ==
    /\ run.policy = SkipInvalid
    /\ run.objects = <<"a", "bad">>
    /\ RanToEnd
    /\ "a" \in run.startLive /\ "a" \in run.startInv.objs
    /\ "a" \in liveInv.objs /\ "a" \in live
    /\ events[1] = ValidationEvent("a") /\ events[2] = ValidationEvent("bad")
    /\ events[3] = InitEvent

C21_WitnessValidApplied ==
    /\ run.policy = SkipInvalid
    /\ run.objects = <<"cm1", "bad">>
    /\ RanToEnd
    /\ run.status["cm1"] = "current"

\* ---------------------------------------------------------------- C22
\* sync rt is root-scoped and sync ns is namespace-scoped.
Mixed(rt, ns) == scopes[rt] = RootScope /\ scopes[ns] = NamespaceScope

RoleOf(s) == role.exists /\ role.manager = s /\ role.content = s

\* The resource version can grow no further: the cycles of the model stop.
AtMaxVersion == role.rv >= MaxVersion

\* C22: between a root sync and a namespace-scoped sync that declare the
\* same object, in whatever order: the root sync never reports an error;
\* while the root sync declares and manages the object no step changes it;
\* once both have synced the object is the root sync's; and the
\* namespace-scoped sync comes to report a ManagementConflict.
C22_RootWinsOverNamespace ==
    /\ [](\A rt \in Syncs : \A ns \in Syncs \ {rt} :
            Mixed(rt, ns) =>
                /\ syncErr[rt] = NoSyncErr
                /\ syncErr[ns] \in {NoSyncErr, "ManagementConflict"}
                /\ (BothDeclare /\ synced[rt] /\ synced[ns]) => RoleOf(rt))
    /\ [][\A rt \in Syncs : \A ns \in Syncs \ {rt} :
            (Mixed(rt, ns) /\ declaredBy[rt] /\ RoleOf(rt)) => role' = role]_vars
    /\ \A rt \in Syncs : \A ns \in Syncs \ {rt} :
          (Mixed(rt, ns) /\ BothDeclare) ~>
              \/ /\ RoleOf(rt)
                 /\ syncErr[ns] = "ManagementConflict"
                 /\ syncErr[rt] = NoSyncErr
              \/ ~BothDeclare
              \/ AtMaxVersion

\* C22 witness: the namespace-scoped sync declared and created the object,
\* the root sync then took it over, and the namespace-scoped sync reports
\* the conflict.
C22_Witness ==
    \E rt \in Syncs : \E ns \in Syncs \ {rt} :
        /\ Mixed(rt, ns)
        /\ BothDeclare
        /\ RoleOf(rt)
        /\ role.rv = 2
        /\ syncErr[ns] = "ManagementConflict"
        /\ syncErr[rt] = NoSyncErr

\* ---------------------------------------------------------------- C23
\* Sync r declares the object and the other sync does not (any more).
OnlyDeclaredBy(r) == declaredBy[r] /\ ~declaredBy[Other(r)]

\* C23: when one of two syncs has removed its declaration of the object and
\* the other still declares it, the object comes to exist with the content
\* and the manager of the remaining sync and both syncs come to report no
\* error (unless the declarations change again).
C23_RemainingSyncTakesOver ==
    \A r \in Syncs :
        OnlyDeclaredBy(r) ~>
            \/ /\ RoleOf(r)
               /\ \A s \in Syncs : synced[s] /\ syncErr[s] = NoSyncErr
            \/ ~OnlyDeclaredBy(r)
            \/ AtMaxVersion

\* C23 witness: both declared the object, the manager removed its
\* declaration and pruned the object, and the remaining sync has created it
\* again.
C23_Witness ==
    \E r \in Syncs :
        /\ OnlyDeclaredBy(r)
        /\ RoleOf(r)
        /\ role.rv = 2
        /\ \A s \in Syncs : synced[s] /\ syncErr[s] = NoSyncErr
        /\ ~inInventory[Other(r)]

\* ---------------------------------------------------------------- C24
\* Sync s declares the ConfigMap but not its Namespace, under the explicit
\* strategy, and the Namespace does not exist.
MissingNamespace(s) ==
    /\ strategy[s] = Explicit
    /\ cmDeclared[s]
    /\ ~nsDeclared[s]
    /\ ~nsLive.exists

\* C24: a step that creates the Namespace is the cycle of a sync that
\* declares it or has the implicit strategy; the cycle of a sync with the
\* explicit strategy that declares only the ConfigMap, while the Namespace
\* does not exist, ends with an applier error and creates neither the
\* Namespace nor the ConfigMap; and a sync that declares the ConfigMap is
\* synced only when the Namespace exists, created by a sync that declared it
\* or that had the implicit strategy.
C24_ExplicitNeverCreatesNamespace ==
    /\ [][(~nsLive.exists /\ nsLive'.exists) =>
             /\ nsDeclared[nsLive'.by] \/ strategy[nsLive'.by] = Implicit
             /\ nsLive'.how = (IF nsDeclared[nsLive'.by] THEN "declared" ELSE Implicit)]_vars
    /\ [][\A s \in RootSyncs :
             (MissingNamespace(s) /\ nsStatus'[s] \notin {nsStatus[s], "pending"}) =>
                /\ nsStatus'[s] = "ApplierError"
                /\ ~nsLive'.exists
                /\ ~cmLive'[s]]_vars
    /\ [](\A s \in RootSyncs :
             /\ (cmDeclared[s] /\ nsStatus[s] = "synced") => (nsLive.exists /\ cmLive[s])
             /\ cmLive[s] => nsLive.exists
             /\ (nsLive.exists /\ nsLive.how = "declared") => nsDeclared[nsLive.by])

C24_Witness ==
    /\ strategy = [s \in RootSyncs |-> Explicit]
    /\ cmDeclared["sync-x"] /\ ~nsDeclared["sync-x"]
    /\ nsStatus["sync-x"] = "ApplierError"
    /\ ~nsLive.exists
    /\ ~cmLive["sync-x"]

C24_WitnessDeclaredLater ==
    /\ strategy = [s \in RootSyncs |-> Explicit]
    /\ cmDeclared["sync-x"] /\ ~nsDeclared["sync-x"]
    /\ nsStatus["sync-x"] = "synced"
    /\ nsLive.exists /\ nsLive.by = "sync-a" /\ nsLive.how = "declared"
    /\ cmLive["sync-x"]

\* ---------------------------------------------------------------- C27
\* The cells of every snapshot that was ever installed.
PublishedRefs ==
    UNION { { sn.objSet.pairs[i].ref : i \in 1..Len(sn.objSet.pairs) } : sn \in installed }

NothingLeft(p) ==
    /\ updateErrs[p] = NoErr
    /\ \/ cache[arg[p].commit].parserErrs
       \/ /\ cache[arg[p].commit].declaredResourcesUpdated
          /\ cache[arg[p].commit].applied
          /\ cache[arg[p].commit].watchesUpdated

\* C30: a cycle whose declare, apply or watch step fails returns without
\* calling Resume and leaves the remediator paused; a paused remediator is
\* resumed only by a cycle that has completed all of its remaining steps
\* without an error.
C30_FailedStepKeepsPaused ==
    [][/\ \A p \in Callers :
            ( /\ pc[p] \in {"declaring", "apply", "watch"}
              /\ pc'[p] = "ret"
              /\ updateErrs'[p] # NoErr )
               => /\ paused'
                  /\ "Resume" \notin { calls'[p][i] : i \in 1..Len(calls'[p]) }
       /\ \A p \in Callers :
            (pc[p] \in {"ret", "fight", "return"} /\ updateErrs[p] # NoErr)
               => paused'
       /\ (paused /\ ~paused')
               => \E p \in Callers : pc[p] = "resume" /\ NothingLeft(p)]_vars

\* C30 witness: the cycle that failed in its apply step has returned, no
\* cycle is running, and the remediator is still paused.
C30_Witness ==
    /\ paused
    /\ \A p \in Callers : pc[p] = "idle"
    /\ \E c \in Commits :
          cache[c].declaredResourcesUpdated /\ ~cache[c].applied

\* C30 witness: the retry of a commit whose apply step had failed has gone
\* through its remaining steps and resumed the remediator.
C30_WitnessLaterCycle ==
    \E p \in Callers :
        /\ pc[p] = "ret"
        /\ updateErrs[p] = NoErr
        /\ entry[p].declaredResourcesUpdated
        /\ ~entry[p].applied
        /\ calls[p] = <<"Pause", "Apply", "UpdateWatches", "Resume">>
        /\ ~paused

\* ---------------------------------------------------------------- C28
\* The IDs of the non-nil objects of an input list.
InputIDs(objs) == { IDOf(objs[i]) : i \in { j \in 1..Len(objs) : ~objs[j].nil } }

\* The objects a set holds.
RefsOf(pairs) == { pairs[i].ref : i \in 1..Len(pairs) }

\* The step in which the Update call of t installs its set.
Installs(t) == ru[t].pc = "install" /\ ru'[t].pc = "done" /\ ru'[t].err = NoErr

\* C28: once Resources.Update(objects, commit, oldCommit) has installed its
\* set, Get(id) reports found exactly for the IDs of the non-nil input
\* objects, with the new commit, and no read returns an object of the
\* previous snapshot: not Get, not DeclaredObjects or DeclaredUnstructureds,
\* and DeclaredGVKs names the kinds of the new objects only.
C28_UpdateReplacesWhole ==
    [][\A t \in Threads :
          Installs(t) =>
             /\ \A id \in IDs :
                   /\ Get(id)'.found <=> id \in InputIDs(ru'[t].newObjects)
                   /\ Get(id)'.commit = ru[t].commit
                   /\ Get(id)'.found =>
                         Get(id)'.objs[1].from \notin RefsOf(objectMap.pairs)
             /\ DeclaredObjects'.commit = ru[t].commit
             /\ Len(DeclaredObjects'.objs) = Cardinality(InputIDs(ru'[t].newObjects))
             /\ \A i \in 1..Len(DeclaredObjects'.objs) :
                   DeclaredObjects'.objs[i].ref \notin RefsOf(objectMap.pairs)
             /\ \A i \in 1..Len(DeclaredUnstructureds'.objs) :
                   DeclaredUnstructureds'.objs[i].ref \notin RefsOf(objectMap.pairs)
             /\ DeclaredGVKs'.gvks = { id.kind : id \in InputIDs(ru'[t].newObjects) }]_vars

\* C28 witness: an Update that declares the Namespace alone has replaced a
\* snapshot that held the Namespace and a ConfigMap; Get no longer finds
\* the ConfigMap.
C28_Witness ==
    \E w \in Writers :
        /\ ru[w].pc = "done"
        /\ ru[w].err = NoErr
        /\ ru[w].newObjects = <<NsFoo>>
        /\ \E sn \in installed : HasKey(sn.objSet.pairs, IDOf(CmA))
        /\ ~Get(IDOf(CmA)).found
        /\ Get(IDOf(NsFoo)).found

\* ---------------------------------------------------------------- C29
\* The IDs of a list of objects in the order of their first occurrence.
RECURSIVE FirstInserted(_, _)
FirstInserted(objs, acc) ==
    IF objs = <<>> THEN acc
    ELSE IF \E i \in 1..Len(acc) : acc[i] = IDOf(Head(objs))
         THEN FirstInserted(Tail(objs), acc)
         ELSE FirstInserted(Tail(objs), Append(acc, IDOf(Head(objs))))

\* The IDs of the objects a read handed out, in the order of the list.
IDsOfList(h, objs) == [i \in 1..Len(objs) |-> IDOf(h[objs[i].ref])]

\* C29: after Update has installed its set, DeclaredObjects lists the objects
\* in the order in which their IDs first occurred among the non-nil inputs;
\* a step that installs nothing leaves the list as it is; and a caller that
\* calls DeclaredObjects again on the snapshot it read before is handed the
\* same list.
C29_InsertionOrderStable ==
    [][/\ \A t \in Threads :
            Installs(t) =>
               IDsOfList(heap', DeclaredObjects'.objs)
                  = FirstInserted(ru'[t].newObjects, <<>>)
       /\ (objectMap' = objectMap) => DeclaredObjects'.objs = DeclaredObjects.objs
       /\ \A r \in Readers :
            ( /\ rd[r].op = "DeclaredObjects"
              /\ rd'[r].op = "DeclaredObjects"
              /\ RefsOf(rd[r].objs) = RefsOf(rd'[r].objs) )
               => rd'[r].objs = rd[r].objs]_vars

\* C29 witness: the input named the ConfigMap, a nil, the Namespace and the
\* ConfigMap again; a reader was handed the ConfigMap (with the later
\* content) first and the Namespace second.
C29_Witness ==
    \E r \in Readers, w \in Writers :
        /\ ru[w].pc = "done"
        /\ ru[w].err = NoErr
        /\ ru[w].newObjects = <<CmA, NsFoo, CmB>>
        /\ internalErrors > 0
        /\ rd[r].op = "DeclaredObjects"
        /\ rd[r].objs = DeclaredObjects.objs
        /\ IDsOfList(heap, rd[r].objs) = <<IDOf(CmA), IDOf(NsFoo)>>
        /\ heap[rd[r].objs[1].ref].data = CmB.data

\* ---------------------------------------------------------------- C25
\* A step in which a worker takes an item off the queue and corrects the
\* live object.
WorkerStep == remQueue' # remQueue /\ remQueue' \subseteq remQueue

\* The cycle of p is between its Pause and its Resume.
InWindow(p) == pc[p] \in {"declare", "declaring", "apply", "watch", "resume"}

C25_WitnessQueuedWhilePaused ==
    /\ paused
    /\ \E it \in remQueue : it.whilePaused
    /\ \A p \in Callers : pc[p] = "idle"

\* ---------------------------------------------------------------- C26
\* C26: Updater.Errors can be called in every state, whoever holds
\* updateMux, and what it returns is the conflict errors, the fight errors,
\* the validation errors of the last declare, the applier's errors and the
\* watch errors of the last watch update, in this order.
C26_ErrorsAnyTimeInOrder ==
    /\ [](ENABLED (\E ce \in ConflictErrs, fe \in FightErrs, ae \in ApplierErrs :
                     ErrorsCall(ce, fe, ae)))
    /\ [](lastErrors.called =>
            lastErrors.errs =
               lastErrors.conflict \o lastErrors.fight
                  \o (IF lastErrors.validation = NoErr THEN <<>>
                      ELSE <<lastErrors.validation>>)
                  \o lastErrors.applier
                  \o (IF lastErrors.watch = NoErr THEN <<>> ELSE <<lastErrors.watch>>))
    /\ [][lastErrors' # lastErrors =>
            /\ lastErrors'.validation = validationErrs
            /\ lastErrors'.watch = watchErrs
            /\ UNCHANGED <<updaterVars, storeVars>>]_vars

\* C26 witness: Errors was called while a cycle held updateMux, and each of
\* the five sources had an error to report.
C26_Witness ==
    /\ lastErrors.called
    /\ lastErrors.during
    /\ lastErrors.errs = <<"ManagementConflict", "Fight", "NamespaceRetentionError",
                           "ApplyError", "StepError">>

\* ---------------------------------------------------------------- C31
\* The non-nil objects of an input list, in input order.
NonNil(objs) == SelectSeq(objs, LAMBDA o : ~o.nil)

NilCount(objs) == Cardinality({ i \in 1..Len(objs) : objs[i].nil })

\* The step in which the Update call of t has built its set from an input
\* whose objects all convert.
Builds(t) == ru[t].pc = "build" /\ ru'[t].pc = "install"

\* The last object of a list that has the ID id.
LastWithID(objs, id) ==
    objs[CHOOSE i \in 1..Len(objs) :
            /\ IDOf(objs[i]) = id
            /\ \A j \in (i + 1)..Len(objs) : IDOf(objs[j]) # id]

\* C31: an Update whose input holds nil objects does not fail for them: the
\* list it returns is the non-nil inputs in input order, the set it
\* installs holds the IDs of the non-nil inputs, each with the content of
\* the input, and internal_errors grows by one for every nil object.
C31_NilObjectsSkipped ==
    [][\A t \in Threads :
          /\ ( /\ ru[t].pc = "build"
               /\ ru'[t].pc # "build"
               /\ \A i \in 1..Len(ru[t].objects) :
                     ru[t].objects[i].nil \/ ru[t].objects[i].conv )
                => Builds(t)
          /\ Builds(t) =>
                /\ ru'[t].newObjects = NonNil(ru[t].objects)
                /\ internalErrors' = internalErrors + NilCount(ru[t].objects)
                /\ { ru'[t].newSet[i].id : i \in 1..Len(ru'[t].newSet) }
                      = InputIDs(ru[t].objects)
                /\ \A i \in 1..Len(ru'[t].newSet) :
                      heap'[ru'[t].newSet[i].ref]
                         = AsUnstructuredSanitized(
                              LastWithID(NonNil(ru[t].objects), ru'[t].newSet[i].id)).u
          /\ Installs(t) =>
                /\ objectMap'.pairs = ru[t].newSet
                /\ ru'[t].newObjects = ru[t].newObjects
                /\ internalErrors' = internalErrors]_vars

\* C31 witness: an Update whose input held a nil object among three others
\* has returned the three others without an error, and one internal error
\* was counted.
C31_Witness ==
    \E w \in Writers :
        /\ ru[w].pc = "done"
        /\ ru[w].err = NoErr
        /\ ru[w].newObjects = <<CmA, NsFoo, CmB>>
        /\ internalErrors = 1
        /\ Len(objectMap.pairs) = 2
        /\ declares = 1

\* ---------------------------------------------------------------- C32
\* Some object of the list cannot be converted.
Unconvertible(objs) == \E i \in 1..Len(objs) : ~objs[i].nil /\ ~objs[i].conv

\* C32: the Update of an input with an object that cannot be converted
\* ends in its build step with an InternalError and no list, whatever
\* converted before; that step and the return that follows leave the
\* installed set, its commit, its objects and the declared_resources
\* metric as they were.
C32_ConversionFailureLeavesStore ==
    [][\A t \in Threads :
          /\ (ru[t].pc = "build" /\ ru'[t].pc # "build" /\ Unconvertible(ru[t].objects))
                => /\ ru'[t].pc = "done"
                   /\ ru'[t].err = "InternalError"
                   /\ ru'[t].newObjects = <<>>
                   /\ UNCHANGED <<objectMap, commit, heap, installed, declaredResources>>
                   /\ StoreView' = StoreView
          /\ (ru[t].pc = "done" /\ ru[t].err = "InternalError" /\ ru'[t] # ru[t])
                => /\ ru'[t].pc = "none"
                   /\ UNCHANGED <<objectMap, commit, installed>>]_vars

\* C32 witness: the store holds a snapshot of two objects, and a second
\* Update, whose first object converted and whose second did not, has
\* returned the InternalError.
C32_Witness ==
    \E w \in Writers :
        /\ ru[w].pc = "done"
        /\ ru[w].err = "InternalError"
        /\ ru[w].newObjects = <<>>
        /\ declares = 2
        /\ Len(objectMap.pairs) = 2
        /\ Len(heap) = 2
        /\ Cardinality(installed) = 2

\* ---------------------------------------------------------------- C35
\* The Update call of t leaves its build step, where the metric is recorded.
BuildEnds(t) == ru[t].pc = "build" /\ ru'[t].pc # "build"

\* What the call of t has to record: the number of non-nil inputs for its
\* commit and, after a change of revision, 0 for the old commit.
Recorded(t) ==
    /\ declaredResources'[ru[t].commit] = Len(NonNil(ru[t].objects))
    /\ (ru[t].oldCommit # "" /\ ru[t].oldCommit # ru[t].commit)
          => declaredResources'[ru[t].oldCommit] = 0
    /\ \A c \in Commits \ {ru[t].commit, ru[t].oldCommit} :
          declaredResources'[c] = declaredResources[c]

\* C35 (as claimed): every Resources.Update records declared_resources for
\* its commit as the number of non-nil inputs and, when oldCommit is set and
\* differs, 0 for oldCommit.
C35_EveryUpdateRecords ==
    [][\A t \in Threads : BuildEnds(t) => Recorded(t)]_vars

\* C35 (amended): an Update whose objects all convert records
\* declared_resources for its commit as the number of non-nil inputs and,
\* when oldCommit is set and differs, 0 for oldCommit, before the
\* namespace-retention check and whatever that check says; an Update that
\* fails to convert an object records nothing; no other step changes the
\* metric.
C35_ConvertedUpdateRecords ==
    [][/\ \A t \in Threads :
            BuildEnds(t) =>
               IF Unconvertible(ru[t].objects)
               THEN declaredResources' = declaredResources
               ELSE Recorded(t)
       /\ (\A t \in Threads : ~BuildEnds(t)) => declaredResources' = declaredResources]_vars

\* C35 witness: the first commit declared two objects, the second, which
\* removes one of them, was accepted; the latest value of the first commit
\* is 0 and that of the second is 1.
C35_Witness ==
    \E w \in Writers :
        /\ ru[w].pc = "done"
        /\ ru[w].err = NoErr
        /\ ru[w].newObjects = <<NsFoo>>
        /\ commit = "c2"
        /\ declaredResources["c1"] = 0
        /\ declaredResources["c2"] = 1
        /\ \E sn \in installed : sn.commit = "c1" /\ Len(sn.objSet.pairs) = 2

\* ---------------------------------------------------------------- C38
\* No ID occurs twice in the set.
UniqueIDs(pairs) ==
    \A i, j \in 1..Len(pairs) : pairs[i].id = pairs[j].id => i = j

\* C38 (as claimed): the set an Update installs holds every ID once, also
\* when the input named an ID several times, and the list the Update
\* returns and the declared_resources value it recorded for its commit
\* have as many entries as the installed set has objects.
C38_ReturnedListMatchesSnapshot ==
    [][\A t \in Threads :
          Installs(t) =>
             /\ UniqueIDs(objectMap'.pairs)
             /\ Len(ru'[t].newObjects) = Len(objectMap'.pairs)
             /\ declaredResources'[ru[t].commit] = Len(objectMap'.pairs)]_vars

\* The half of C38 that holds: every installed set holds every ID once.
C38_InstalledIDsUnique ==
    \A sn \in installed : UniqueIDs(sn.objSet.pairs)

\* ---------------------------------------------------------------- C39
\* C39 (as claimed): however two Updates interleave, the set an accepted
\* Update replaces is the set its namespace-retention check looked at.
C39_CheckedAgainstReplaced ==
    [][\A t \in Threads : Installs(t) => ru[t].previousSet = objectMap]_vars

\* What the check is for: no accepted Update replaces a set that declares
\* Namespaces by a set that declares none of them.
C39_NoAcceptedNamespaceWipe ==
    [][\A t \in Threads :
          Installs(t) => ~deletesAllNamespaces(objectMap, objectMap'.pairs)]_vars

\* ---------------------------------------------------------------- C37
\* C37: the caches having started with their three flags unset and being
\* changed by Updater.Update alone, in every state a cache with
\* watchesUpdated set has applied set, and a cache with applied set has
\* declaredResourcesUpdated set.
C37_FlagsNested ==
    \A c \in Commits :
        /\ cache[c].watchesUpdated => cache[c].applied
        /\ cache[c].applied => cache[c].declaredResourcesUpdated

\* C37 witness: one commit has gone through all three steps, and the cycle
\* of the other has declared and applied and failed in its watch update.
C37_Witness ==
    \E c, d \in Commits :
        /\ cache[c].declaredResourcesUpdated /\ cache[c].applied /\ cache[c].watchesUpdated
        /\ cache[d].declaredResourcesUpdated /\ cache[d].applied /\ ~cache[d].watchesUpdated
        /\ \E p \in Callers : Failed(p) /\ arg[p].commit = d

\* ---------------------------------------------------------------- C33
\* The run ended where it acquires its inventory.
AbortedAtInventory ==
    /\ run.pc \in {"closing", "done"}
    /\ events \in { <<ErrorEvent("InventoryError")>>,
                     <<ErrorEvent("InventoryIDMismatch")>> }

\* C33: the step of Run that acquires the inventory goes on with the
\* inventory on the cluster when there is one with the requested ID, and
\* with a new, empty inventory of the requested ID when there is none;
\* otherwise (the read failed, or the inventory has another ID) it sends
\* one Error event and the run ends: no Init event, no apply or prune set,
\* and the objects and the inventory on the cluster stay as they were when
\* the run started.
C33_InventoryAcquisition ==
    /\ [][(run.pc = "inventory" /\ run'.pc # "inventory") =>
            \/ /\ run'.pc = "prepare"
               /\ run'.inv.id = run.invInfo.id
               /\ run'.inv = IF liveInv.exists THEN liveInv
                             ELSE [exists |-> TRUE, id |-> run.invInfo.id, objs |-> {}]
               /\ events' = events
            \/ /\ run'.pc = "closing"
               /\ \/ events' = <<ErrorEvent("InventoryError")>>
                  \/ /\ events' = <<ErrorEvent("InventoryIDMismatch")>>
                     /\ liveInv.exists
                     /\ liveInv.id # run.invInfo.id]_vars
    /\ [](AbortedAtInventory =>
            /\ EventsOfType("Init") = {}
            /\ run.applyObjs = <<>>
            /\ run.pruneObjs = {}
            /\ \A o \in AObjects : run.status[o] = "none"
            /\ live = run.startLive
            /\ liveInv = run.startInv)

\* C33 witness: the inventory on the cluster lists objects and has another
\* ID than the one requested; the run has ended with the Error event alone.
C33_Witness ==
    /\ run.pc = "done"
    /\ events = <<ErrorEvent("InventoryIDMismatch")>>
    /\ liveInv.objs # {}
    /\ run.objects # <<>>
    /\ live # {}

\* C33 witness: there was no inventory on the cluster; the run went
\* through its tasks with a new one and stored it.
C33_WitnessNotFound ==
    /\ RanToEnd
    /\ run.startInv = NoInv
    /\ liveInv.exists
    /\ liveInv.id = run.invInfo.id
    /\ liveInv.objs # {}

\* ---------------------------------------------------------------- C34
\* The events the tasks of the runner send.
TaskEventTypes == {"Apply", "Prune", "Wait"}

\* The errors with which Run ends before its tasks start.
EarlyErrors ==
    {"InventoryError", "InventoryIDMismatch", "InventoryInObjects", "GetPruneObjsError",
     "ValidationError", "InvalidValidationPolicy"}

\* C34: the events of a run hold at most one Init event; every Validation
\* event stands before it and every Apply, Prune and Wait event after it,
\* none of these being sent without it; and it is there only when the
\* inventory of the requested ID was acquired, the objects were prepared
\* and the validation policy let the run go on, so never together with an
\* Error event of one of these stages.
C34_InitEventOnceInPlace ==
    /\ Cardinality(EventsOfType("Init")) <= 1
    /\ \A i \in EventsOfType("Init"), j \in 1..Len(events) :
          /\ events[j].type = "Validation" => j < i
          /\ events[j].type \in TaskEventTypes => i < j
    /\ (\E j \in 1..Len(events) : events[j].type \in TaskEventTypes)
          => EventsOfType("Init") # {}
    /\ EventsOfType("Init") # {} =>
          /\ run.inv.exists
          /\ run.inv.id = run.invInfo.id
          /\ run.stamped = run.inv.id
          /\ run.applyObjs = run.objects
          /\ run.policy \in {ExitEarly, SkipInvalid}
          /\ run.policy = ExitEarly => run.vErrors = <<>>
          /\ \A j \in EventsOfType("Error") : events[j].status \notin EarlyErrors
    /\ run.pc \in {"invadd", "apply", "prune"} => EventsOfType("Init") # {}

\* C34 witness: a run under SkipInvalid has sent a Validation event, then
\* the Init event, then events of its apply and prune tasks.
C34_Witness ==
    /\ Len(events) >= 4
    /\ events[1].type = "Validation"
    /\ events[2].type = "Init"
    /\ \E j \in 3..Len(events) : events[j].type = "Apply"
    /\ \E j \in 3..Len(events) : events[j].type = "Prune"

\* ---------------------------------------------------------------- C36
\* The step is a cycle of sync s after the object left its source.
Prunes(s) == ~declaredBy[s] /\ ~synced[s] /\ synced'[s]

\* Sync s no longer declares the live object and another sync manages it.
OwnedByOther(s) == role.exists /\ role.manager # s

C36_WitnessBeforeCycle ==
    \E rt \in Syncs : \E ns \in Syncs \ {rt} :
        /\ Mixed(rt, ns)
        /\ OnlyDeclaredBy(rt)
        /\ RoleOf(rt)
        /\ inInventory[ns]
        /\ ~synced[ns]
        /\ syncErr[ns] = "ManagementConflict"

\* ---------------------------------------------------------------- C40
\* A run is under way: Run was called and its goroutine has not returned.
Running == run.pc \notin {"idle", "done"}

\* C40: with a consumer that keeps receiving, every run comes to its end
\* with the channel closed; the channel of a run is closed once, by the step
\* that ends the run, whatever path the run took; and an Error event sent by
\* Run is the last event of its channel, with nothing left for the run to
\* do but close it.
C40_RunTerminatesAndClosesOnce ==
    /\ [](/\ closed = (IF run.pc = "done" THEN 1 ELSE 0)
          /\ \A i \in 1..Len(events) :
                events[i].type = "Error" =>
                    /\ i = Len(events)
                    /\ run.pc \in {"closing", "done"})
    /\ [][/\ closed' # closed =>
                \/ closed = 0 /\ closed' = 1 /\ run.pc = "closing" /\ run'.pc = "done"
                \/ runs' = runs + 1 /\ closed' = 0
          /\ (closed = 1 /\ runs' = runs) => (events' = events /\ closed' = 1)]_vars
    /\ Running ~> (run.pc = "done" /\ closed = 1)

\* C40 witness: a run whose task runner failed after the Init event and a
\* task event has ended: the Error event is the last of four or more and
\* the channel is closed.
C40_Witness ==
    /\ run.pc = "done"
    /\ closed = 1
    /\ Len(events) >= 3
    /\ events[Len(events)] = ErrorEvent("RunnerError")
    /\ \E i \in 1..Len(events) : events[i].type \in TaskEventTypes

\* C40 witness: a run that failed to acquire its inventory has ended with
\* the Error event as the only event and the channel closed.
C40_WitnessEarlyError ==
    /\ run.pc = "done"
    /\ closed = 1
    /\ events = <<ErrorEvent("InventoryError")>>

============================================================================
